---------------------------- MODULE Spec2Model ----------------------------
(***************************************************************************)
(* Model of the conversation backend of src/index.ts:                      *)
(*   - ChatHistory  (SessionLog):  one Durable Object per session id,      *)
(*     in-memory `messages` / `userContext` over a key-value storage;      *)
(*   - ChatSessions (SessionDirectory): one global Durable Object;         *)
(*   - handleChat / coordinateChat (Orchestrator): one turn.               *)
(*                                                                         *)
(* Scheduling.  A Durable Object runs one JavaScript thread.  While a      *)
(* handler awaits a storage operation the object's input gate is closed,   *)
(* so the code from one non-storage await to the next is one atomic step.  *)
(* `await request.json()` is not a storage operation: a handler suspended   *)
(* there lets other requests of the same object run, and the suspended     *)
(* handlers resume in any order.                                           *)
(***************************************************************************)
EXTENDS Integers, Sequences, FiniteSets, TLC

VARIABLES
    messages,      \* ChatHistory.messages, per session id (in memory)
    userContext,   \* ChatHistory.userContext, per session id (in memory)
    storage,       \* ChatHistory state.storage, per session id (durable)
    suspended,     \* per session id: handlers waiting in `await request.json()`
    now,           \* the value Date.now() returned last
    nextId,        \* number of the next appended text
    nReq,          \* number of POST requests so far
    sessions,      \* ChatSessions.sessions (in memory)
    sessStorage,   \* ChatSessions state.storage (durable)
    sessSuspended, \* ChatSessions handlers waiting in `await request.json()`
    turns,         \* per turn: where handleChat / coordinateChat stands, and its locals
    hist,          \* history: per session id, hydrated base then every pushed message
    arrivals,      \* history: per session id, contents of POST /messages in arrival order
    acked,         \* history: per session id, contents whose append answered success
    failed,        \* history: per session id, contents whose append threw at storage.put
    last           \* history: the step taken last

dirVars == <<sessions, sessStorage, sessSuspended>>
vars == <<messages, userContext, storage, suspended, now, nextId, nReq,
          sessions, sessStorage, sessSuspended, turns,
          hist, arrivals, acked, failed, last>>

-----------------------------------------------------------------------------
(* Bounds of the model *)

MaxRequests == 2
MaxTime == 1

(* Program constants *)

WindowSize == 50

Keys == {"s1", "s2"}
LogKeys == {"s1"}

Roles == {"user", "assistant"}
CtxFields == {"a", "b", "lastActivity"}
CtxVals == {1, 2}

-----------------------------------------------------------------------------
(* Maps (JavaScript objects, the key-value storage) *)

EmptyMap == [f \in {} |-> 0]

Put(s, key, v) == [f \in DOMAIN s \cup {key} |-> IF f = key THEN v ELSE s[f]]

Delete(s, key) == [f \in DOMAIN s \ {key} |-> s[f]]

Has(s, key) == key \in DOMAIN s

Min(a, b) == IF a <= b THEN a ELSE b

\* Array.prototype.slice(-n)
SliceLast(s, n) == IF Len(s) <= n THEN s ELSE SubSeq(s, Len(s) - n + 1, Len(s))

\* a buggy slice: the first n elements
SliceFirst(s, n) == IF Len(s) <= n THEN s ELSE SubSeq(s, 1, n)

Remove(s, i) == [j \in 1..(Len(s) - 1) |-> IF j < i THEN s[j] ELSE s[j + 1]]

Content(id) == "m" \o ToString(id)

Message(role, content, t) == [role |-> role, content |-> content, timestamp |-> t]

\* Date.now(): the clock never runs backwards
Times == {t \in {now, now + 1} : t <= MaxTime}

\* the log a session holds from an earlier life of its object
Prior(n) == [i \in 1..n |->
               Message(IF i % 2 = 1 THEN "user" ELSE "assistant", Content(i), 0)]

PriorLens == {0, WindowSize - 1, WindowSize}

\* request bodies of POST /context
Bodies == UNION {[{f} -> CtxVals] : f \in CtxFields}

-----------------------------------------------------------------------------
(* ChatHistory *)

\* lines 113-118: hydrate when the in-memory list is empty
HydratedMessages(k) ==
    IF Len(messages[k]) = 0 /\ Has(storage[k], "messages")
    THEN storage[k].messages ELSE messages[k]

HydratedContext(k) ==
    IF Len(messages[k]) = 0 /\ Has(storage[k], "userContext")
    THEN storage[k].userContext ELSE userContext[k]

HydratedHist(k) ==
    IF Len(messages[k]) = 0 /\ Has(storage[k], "messages")
    THEN storage[k].messages ELSE hist[k]

\* line 129 (a buggy push: unshift)
PushFront(list, m) == <<m>> \o list

\* line 129: this.messages.push(...)
Push(list, m) == Append(list, m)

\* lines 135-137 (a buggy trim: keeps the oldest)
TrimOldest(list) == IF Len(list) > WindowSize THEN SliceFirst(list, WindowSize) ELSE list

\* lines 135-137: if (length > 50) messages = messages.slice(-50)
Trim(list) == IF Len(list) > WindowSize THEN SliceLast(list, WindowSize) ELSE list

\* line 153 (a buggy merge: wholesale replacement)
MergeReplace(ctx, body) == body

\* line 153: { ...this.userContext, ...body }
Merge(ctx, body) ==
    [f \in DOMAIN ctx \cup DOMAIN body |-> IF f \in DOMAIN body THEN body[f] ELSE ctx[f]]

\* GET /messages (lines 113-125): getAll
GetMessages(k) ==
    /\ messages' = [messages EXCEPT ![k] = HydratedMessages(k)]
    /\ userContext' = [userContext EXCEPT ![k] = HydratedContext(k)]
    /\ hist' = [hist EXCEPT ![k] = HydratedHist(k)]
    /\ UNCHANGED <<storage, suspended, arrivals, acked, failed>>

\* what GET /messages answers in the current state
GetAllMessages(k) == HydratedMessages(k)

GetAllContext(k) == HydratedContext(k)

\* POST /messages, lines 113-128: hydrate, then wait for the request body
PostMessagesArrive(k, role, content, caller) ==
    /\ messages' = [messages EXCEPT ![k] = HydratedMessages(k)]
    /\ userContext' = [userContext EXCEPT ![k] = HydratedContext(k)]
    /\ hist' = [hist EXCEPT ![k] = HydratedHist(k)]
    /\ suspended' = [suspended EXCEPT ![k] =
           Append(@, [path |-> "/messages", role |-> role, content |-> content,
                      body |-> EmptyMap, caller |-> caller])]
    /\ arrivals' = [arrivals EXCEPT ![k] = Append(@, content)]
    /\ UNCHANGED <<storage, acked, failed>>

\* POST /messages, lines 129-140: push, trim, persist; ok = storage.put did not throw
PostMessagesResume(k, i, t, ok) ==
    /\ i \in 1..Len(suspended[k])
    /\ suspended[k][i].path = "/messages"
    /\ LET r == suspended[k][i]
           m == Message(r.role, r.content, t)
           list == Trim(Push(messages[k], m))
       IN /\ messages' = [messages EXCEPT ![k] = list]
          /\ storage' = [storage EXCEPT ![k] =
                 IF ok THEN Put(@, "messages", list) ELSE @]
          /\ hist' = [hist EXCEPT ![k] = Append(@, m)]
          /\ acked' = [acked EXCEPT ![k] = IF ok THEN @ \cup {r.content} ELSE @]
          /\ failed' = [failed EXCEPT ![k] = IF ok THEN @ ELSE @ \cup {r.content}]
    /\ suspended' = [suspended EXCEPT ![k] = Remove(@, i)]
    /\ now' = t
    /\ UNCHANGED <<userContext, arrivals>>

\* line 144 (a buggy clear: one list shared by the objects of all keys)
DeleteMessagesEveryKey(k, ok) ==
    /\ messages' = [b \in Keys |-> <<>>]
    /\ userContext' = [userContext EXCEPT ![k] = HydratedContext(k)]
    /\ storage' = [storage EXCEPT ![k] = IF ok THEN Delete(@, "messages") ELSE @]
    /\ hist' = [hist EXCEPT ![k] = <<>>]
    /\ acked' = [acked EXCEPT ![k] = IF ok THEN {} ELSE @]
    /\ failed' = [failed EXCEPT ![k] = IF ok THEN {} ELSE @]
    /\ UNCHANGED <<suspended, arrivals>>

\* DELETE /messages, lines 113-118 and 143-147: clear; ok = storage.delete did not throw
DeleteMessages(k, ok) ==
    /\ messages' = [messages EXCEPT ![k] = <<>>]
    /\ userContext' = [userContext EXCEPT ![k] = HydratedContext(k)]
    /\ storage' = [storage EXCEPT ![k] = IF ok THEN Delete(@, "messages") ELSE @]
    /\ hist' = [hist EXCEPT ![k] = <<>>]
    /\ acked' = [acked EXCEPT ![k] = IF ok THEN {} ELSE @]
    /\ failed' = [failed EXCEPT ![k] = IF ok THEN {} ELSE @]
    /\ UNCHANGED <<suspended, arrivals>>

\* POST /context, lines 113-118 and 151-152: hydrate, then wait for the request body
PostContextArrive(k, body, caller) ==
    /\ messages' = [messages EXCEPT ![k] = HydratedMessages(k)]
    /\ userContext' = [userContext EXCEPT ![k] = HydratedContext(k)]
    /\ hist' = [hist EXCEPT ![k] = HydratedHist(k)]
    /\ suspended' = [suspended EXCEPT ![k] =
           Append(@, [path |-> "/context", role |-> "", content |-> "", body |-> body,
                      caller |-> caller])]
    /\ UNCHANGED <<storage, arrivals, acked, failed>>

\* lines 153-154: the merged context with lastActivity = Date.now()
MergedContext(ctx, body, t) == Put(Merge(ctx, body), "lastActivity", t)

\* POST /context, lines 153-156: merge, stamp, persist
PostContextResume(k, i, t, ok) ==
    /\ i \in 1..Len(suspended[k])
    /\ suspended[k][i].path = "/context"
    /\ LET ctx == MergedContext(userContext[k], suspended[k][i].body, t)
       IN /\ userContext' = [userContext EXCEPT ![k] = ctx]
          /\ storage' = [storage EXCEPT ![k] =
                 IF ok THEN Put(@, "userContext", ctx) ELSE @]
    /\ suspended' = [suspended EXCEPT ![k] = Remove(@, i)]
    /\ now' = t
    /\ UNCHANGED <<messages, hist, arrivals, acked, failed>>

\* lines 106-110: the object is evicted while idle and constructed again
Restart(k) ==
    /\ Len(suspended[k]) = 0
    /\ messages' = [messages EXCEPT ![k] = <<>>]
    /\ userContext' = [userContext EXCEPT ![k] = EmptyMap]
    /\ hist' = [hist EXCEPT ![k] = <<>>]
    /\ UNCHANGED <<storage, suspended, arrivals, acked, failed>>


-----------------------------------------------------------------------------
(* ChatSessions *)

Session(id, name, lastMessage, created, updated) ==
    [id |-> id, name |-> name, lastMessage |-> lastMessage,
     createdAt |-> created, updatedAt |-> updated]

\* lines 26-29: hydrate when the in-memory list is empty
HydratedSessions ==
    IF Len(sessions) = 0 /\ Has(sessStorage, "sessions")
    THEN sessStorage.sessions ELSE sessions

\* a buggy search: the first summary when none has the id
FindIndexOrFirst(list, id) ==
    IF \E i \in 1..Len(list) : list[i].id = id
    THEN CHOOSE i \in 1..Len(list) :
            list[i].id = id /\ \A j \in 1..(i - 1) : list[j].id # id
    ELSE IF Len(list) > 0 THEN 1 ELSE 0

\* line 66: findIndex, 0 for -1
FindIndex(list, id) ==
    IF \E i \in 1..Len(list) : list[i].id = id
    THEN CHOOSE i \in 1..Len(list) :
            list[i].id = id /\ \A j \in 1..(i - 1) : list[j].id # id
    ELSE 0

\* lines 68-70 (a buggy update: the preview is not written)
UpdatedSessionNoPreview(sess, body, t) ==
    [sess EXCEPT !.name = IF Has(body, "name") /\ body.name # "" THEN body.name ELSE @,
                 !.updatedAt = t]

\* line 69 (a buggy update: the preview is written only when it is truthy)
UpdatedSessionTruthyPreview(sess, body, t) ==
    [sess EXCEPT !.name = IF Has(body, "name") /\ body.name # "" THEN body.name ELSE @,
                 !.lastMessage = IF Has(body, "lastMessage") /\ body.lastMessage # ""
                                 THEN body.lastMessage ELSE @,
                 !.updatedAt = t]

\* lines 68-70: name if truthy, lastMessage if defined, updatedAt = Date.now()
UpdatedSession(sess, body, t) ==
    [sess EXCEPT !.name = IF Has(body, "name") /\ body.name # "" THEN body.name ELSE @,
                 !.lastMessage = IF Has(body, "lastMessage") THEN body.lastMessage ELSE @,
                 !.updatedAt = t]

\* PUT /sessions, lines 26-29 and 64-65: hydrate, then wait for the request body
PutSessionsArrive(body, caller) ==
    /\ sessions' = HydratedSessions
    /\ sessSuspended' = Append(sessSuspended,
           [method |-> "PUT", body |-> body, caller |-> caller])
    /\ UNCHANGED sessStorage

\* PUT /sessions, lines 66-79; ok = storage.put did not throw
PutSessionsResume(i, t, ok) ==
    /\ i \in 1..Len(sessSuspended)
    /\ sessSuspended[i].method = "PUT"
    /\ LET body == sessSuspended[i].body
           idx == FindIndex(sessions, body.id)
       IN IF idx # 0
          THEN LET list == [sessions EXCEPT ![idx] = UpdatedSession(@, body, t)]
               IN /\ sessions' = list
                  /\ sessStorage' = IF ok THEN Put(sessStorage, "sessions", list)
                                    ELSE sessStorage
                  /\ now' = t
          ELSE UNCHANGED <<sessions, sessStorage, now>>
    /\ sessSuspended' = Remove(sessSuspended, i)

\* the status PUT /sessions answers; 0 when the handler throws
PutSessionsStatus(i, ok) ==
    IF FindIndex(sessions, sessSuspended[i].body.id) = 0 THEN 404
    ELSE IF ok THEN 200 ELSE 0


\* line 48 (a buggy fallback: a fixed id when the body names none)
NewIdDefault(body, rid) ==
    IF Has(body, "id") /\ body.id # "" THEN body.id ELSE "s1"

\* line 48: body.id || 'session-' + Math.random()...; rid is the generated id
NewId(body, rid) ==
    IF Has(body, "id") /\ body.id # "" THEN body.id ELSE rid

\* lines 47-53: name defaults to 'New Chat'; Date.now() is read twice
NewSession(body, rid, t1, t2) ==
    Session(NewId(body, rid),
            IF Has(body, "name") /\ body.name # "" THEN body.name ELSE "New Chat",
            "", t1, t2)

\* a buggy insertion: at the end
PushBack(list, sess) == Append(list, sess)

\* line 54 (a buggy create: the new summary replaces the listed ones with its id)
UnshiftReplacing(list, sess) ==
    <<sess>> \o SelectSeq(list, LAMBDA x : x.id # sess.id)

\* line 54: this.sessions.unshift(newSession)
Unshift(list, sess) == <<sess>> \o list

\* a buggy removal: only the first summary with the id goes
WithoutFirst(list, id) ==
    IF FindIndex(list, id) = 0 THEN list ELSE Remove(list, FindIndex(list, id))

\* line 85: this.sessions.filter(s => s.id !== body.id)
Without(list, id) == SelectSeq(list, LAMBDA sess : sess.id # id)

\* GET /sessions, lines 26-29 and 40-44: hydrate, answer the in-memory list
GetSessions ==
    /\ sessions' = HydratedSessions
    /\ UNCHANGED <<sessStorage, sessSuspended>>

\* what GET /sessions would answer now
ListSessions == HydratedSessions

\* POST /sessions, lines 26-29 and 46-47: hydrate, then wait for the request body
PostSessionsArrive(body, caller) ==
    /\ sessions' = HydratedSessions
    /\ sessSuspended' = Append(sessSuspended,
           [method |-> "POST", body |-> body, caller |-> caller])
    /\ UNCHANGED sessStorage

\* POST /sessions, lines 48-58; ok = storage.put did not throw
PostSessionsResume(i, rid, t1, t2, ok) ==
    /\ i \in 1..Len(sessSuspended)
    /\ sessSuspended[i].method = "POST"
    /\ LET list == Unshift(sessions, NewSession(sessSuspended[i].body, rid, t1, t2))
       IN /\ sessions' = list
          /\ sessStorage' = IF ok THEN Put(sessStorage, "sessions", list) ELSE sessStorage
    /\ now' = t2
    /\ sessSuspended' = Remove(sessSuspended, i)

\* DELETE /sessions, lines 26-29 and 83-84: hydrate, then wait for the request body
DeleteSessionsArrive(body, caller) ==
    /\ sessions' = HydratedSessions
    /\ sessSuspended' = Append(sessSuspended,
           [method |-> "DELETE", body |-> body, caller |-> caller])
    /\ UNCHANGED sessStorage

\* DELETE /sessions, lines 85-89; ok = storage.put did not throw
DeleteSessionsResume(i, ok) ==
    /\ i \in 1..Len(sessSuspended)
    /\ sessSuspended[i].method = "DELETE"
    /\ LET list == Without(sessions, sessSuspended[i].body.id)
       IN /\ sessions' = list
          /\ sessStorage' = IF ok THEN Put(sessStorage, "sessions", list) ELSE sessStorage
    /\ sessSuspended' = Remove(sessSuspended, i)

\* lines 20-23: the object is evicted and constructed again; no handler is running
RestartSessions ==
    /\ Len(sessSuspended) = 0
    /\ sessions' = <<>>
    /\ UNCHANGED <<sessStorage, sessSuspended>>

-----------------------------------------------------------------------------
(* Text *)

Max(S) == CHOOSE x \in S : \A y \in S : y <= x

Upper == "ABCDEFGHIJKLMNOPQRSTUVWXYZ"
LowerAlpha == "abcdefghijklmnopqrstuvwxyz"

LowerChar(c) ==
    IF \E i \in 1..Len(Upper) : SubSeq(Upper, i, i) = c
    THEN LET i == CHOOSE j \in 1..Len(Upper) : SubSeq(Upper, j, j) = c
         IN SubSeq(LowerAlpha, i, i)
    ELSE c

RECURSIVE ToLowerCase(_)
ToLowerCase(str) ==
    IF Len(str) = 0 THEN ""
    ELSE LowerChar(SubSeq(str, 1, 1)) \o ToLowerCase(SubSeq(str, 2, Len(str)))

\* String.prototype.includes
Includes(str, w) ==
    \E i \in 1..(Len(str) - Len(w) + 1) : SubSeq(str, i, i + Len(w) - 1) = w

IsLetter(c) ==
    \E i \in 1..Len(Upper) : SubSeq(Upper, i, i) = c \/ SubSeq(LowerAlpha, i, i) = c

IsSpace(c) == c = " " \/ c = "\n" \/ c = "\t"

RECURSIVE Trimmed(_)
\* String.prototype.trim
Trimmed(str) ==
    IF Len(str) = 0 THEN ""
    ELSE IF IsSpace(SubSeq(str, 1, 1)) THEN Trimmed(SubSeq(str, 2, Len(str)))
    ELSE IF IsSpace(SubSeq(str, Len(str), Len(str)))
         THEN Trimmed(SubSeq(str, 1, Len(str) - 1))
    ELSE str

\* line 384: the matches of /in\s+([a-zA-Z\s]+?)(?:\?|$|\.)/i as <<i, e>>, where the
\* match starts at i and its group ends at e
CityMatches(str) ==
    {<<i, e>> \in (1..Len(str)) \X (1..Len(str)) :
        /\ i + 3 <= e
        /\ ToLowerCase(SubSeq(str, i, i + 1)) = "in"
        /\ IsSpace(SubSeq(str, i + 2, i + 2))
        /\ \A j \in (i + 3)..e : IsLetter(SubSeq(str, j, j)) \/ IsSpace(SubSeq(str, j, j))
        /\ (e = Len(str) \/ SubSeq(str, e + 1, e + 1) \in {"?", "."})}

\* line 384-386: cityMatch[1].trim(), "" when there is no match
City(str) ==
    IF CityMatches(str) = {} THEN ""
    ELSE LET i == CHOOSE a \in {m[1] : m \in CityMatches(str)} :
                     \A b \in {m[1] : m \in CityMatches(str)} : a <= b
             e == CHOOSE a \in {m[2] : m \in {n \in CityMatches(str) : n[1] = i}} :
                     \A b \in {m[2] : m \in {n \in CityMatches(str) : n[1] = i}} : a <= b
         IN Trimmed(SubSeq(str, i + 3, e))

\* line 230: fileName.split('.').pop()?.toLowerCase()
Extension(fileName) ==
    LET dots == {i \in 1..Len(fileName) : SubSeq(fileName, i, i) = "."}
    IN ToLowerCase(IF dots = {} THEN fileName
                   ELSE SubSeq(fileName, Max(dots) + 1, Len(fileName)))


-----------------------------------------------------------------------------
(* Enrichment: analyzeImage, extractTextFromFile, getExternalInfo *)

VisionText == "a cat on a sofa"
FileText == "hello from the file"
ReplyText == "Hi there"

ImageExtensions == {"jpg", "jpeg", "png", "gif", "webp", "bmp"}
TextExtensions == {"txt", "md", "json", "csv", "html", "xml", "js", "ts", "py", "java",
                   "c", "cpp", "css", "yml", "yaml", "toml", "ini", "log", "sql", "sh",
                   "bash"}

\* what env.AI.run of the vision model can do: a text, an empty text, an object with
\* none of the probed fields, a throw (also of the decoding before it)
VisionOutcomes == {"text", "empty", "object", "throws"}

\* lines 176-177: atob of what follows the comma of the data URL; it throws on
\* characters outside the base64 alphabet
Decodable(payload) == ~Includes(payload, "%")

\* lines 169-219
AnalyzeImage(o) ==
    CASE o = "text" -> VisionText
      [] o = "empty" -> ""
      [] o = "object" -> "Image analyzed successfully."
      [] o = "undecodable" -> "Image uploaded (analysis unavailable: Invalid character)."
      [] OTHER -> "Image uploaded (analysis unavailable: vision failed)."

\* the outcomes of the file task: those of the vision call for an image, of atob for a
\* text file
FileOutcomes(fileName) ==
    IF Extension(fileName) \in ImageExtensions THEN VisionOutcomes
    ELSE IF Extension(fileName) \in TextExtensions THEN {"text", "throws"}
    ELSE {"none"}

\* lines 222-281 (the PDF branch is not modelled: no file name of the model is a PDF;
\* the pictograph that opens each text is left out)
ExtractTextFromFile(fileName, o) ==
    IF Extension(fileName) \in ImageExtensions
    THEN "Image file \"" \o fileName \o "\" analysis:\n\n" \o AnalyzeImage(o)
    ELSE IF Extension(fileName) \in TextExtensions
    THEN IF o = "text"
         THEN "File \"" \o fileName \o "\" contents:\n\n" \o FileText
         ELSE "File \"" \o fileName
                 \o "\" received. Please describe what you'd like to know about it."
    ELSE "File \"" \o fileName \o "\" uploaded (" \o Extension(fileName)
            \o " format). Please tell me what you'd like to know about this file."

\* a buggy order: the date is looked at first
IntentTimeFirst(message) ==
    LET lower == ToLowerCase(message)
    IN IF Includes(lower, "time") \/ Includes(lower, "date") \/ Includes(lower, "day")
       THEN "time"
       ELSE IF (Includes(lower, "weather") \/ Includes(lower, "temperature"))
               /\ CityMatches(message) # {}
       THEN "weather"
       ELSE IF Includes(lower, "news") \/ Includes(lower, "latest")
               \/ Includes(lower, "current")
       THEN "news"
       ELSE "none"

\* a buggy fallback: a search when nothing matches
IntentDefaultNews(message) ==
    LET lower == ToLowerCase(message)
    IN IF (Includes(lower, "weather") \/ Includes(lower, "temperature"))
          /\ CityMatches(message) # {}
       THEN "weather"
       ELSE IF Includes(lower, "time") \/ Includes(lower, "date") \/ Includes(lower, "day")
       THEN "time"
       ELSE "news"

\* lines 381-398: which lookup getExternalInfo runs
Intent(message) ==
    LET lower == ToLowerCase(message)
    IN IF (Includes(lower, "weather") \/ Includes(lower, "temperature"))
          /\ CityMatches(message) # {}
       THEN "weather"
       ELSE IF Includes(lower, "time") \/ Includes(lower, "date") \/ Includes(lower, "day")
       THEN "time"
       ELSE IF Includes(lower, "news") \/ Includes(lower, "latest")
               \/ Includes(lower, "current")
       THEN "news"
       ELSE "none"

\* what the fetches of getWeather and webSearch can do
ExternalOutcomes(intent) ==
    CASE intent = "weather" -> {"found", "notfound", "throws"}
      [] intent = "news" -> {"found", "notfound", "throws"}
      [] OTHER -> {"none"}

\* lines 284-311
GetWeather(city, o) ==
    CASE o = "found" -> "Weather in " \o city \o ": Clear sky"
      [] o = "notfound" -> "Could not find weather data for " \o city
      [] OTHER -> "Unable to fetch weather data"

\* lines 314-333
WebSearch(query, o) ==
    CASE o = "found" -> "Search result: an abstract"
      [] o = "notfound" -> "No information found for: " \o query
      [] OTHER -> "Unable to search"

DateText(t) == "day " \o ToString(t)

\* lines 386, 390, 394, 397: what the branch taken returns; null is ""
ExternalData(intent, message, o, t) ==
    CASE intent = "weather" -> GetWeather(City(message), o)
      [] intent = "time" -> "Current date and time: " \o DateText(t) \o " (UTC)"
      [] intent = "news" -> WebSearch(message, o)
      [] OTHER -> ""

\* lines 380-399
GetExternalInfo(message, o, t) == ExternalData(Intent(message), message, o, t)

-----------------------------------------------------------------------------
(* coordinateChat and handleChat *)

Turns == {"t1", "t2"}

NoBody == [message |-> "", sessionId |-> "", image |-> "", fileName |-> "", fileData |-> ""]

NoResponse == [status |-> 0, response |-> "", error |-> "", sessionId |-> ""]

IdleTurn ==
    [pc |-> "idle", body |-> NoBody, pending |-> {}, results |-> EmptyMap,
     history |-> <<>>, userMessage |-> "", request |-> <<>>, aiResponse |-> "",
     response |-> NoResponse, pushed |-> <<>>, calls |-> <<>>, generated |-> "",
     preview |-> "none", intent |-> "", lookups |-> <<>>, outcomes |-> EmptyMap]

\* lines 664-676: the catch of handleChat
ErrorResponse(msg) == [status |-> 500, response |-> "", error |-> msg, sessionId |-> ""]

\* a buggy answer: the reply is left out
OkResponseNoReply(reply, sessionId) ==
    [status |-> 200, response |-> "", error |-> "", sessionId |-> sessionId]

\* lines 652-663
OkResponse(reply, sessionId) ==
    [status |-> 200, response |-> reply, error |-> "", sessionId |-> sessionId]

\* a buggy check: a file name alone passes
InvalidWithoutName(body) ==
    body.message = "" /\ body.image = "" /\ body.fileData = "" /\ body.fileName = ""

\* line 627: !message && !image && !fileData
Invalid(body) == body.message = "" /\ body.image = "" /\ body.fileData = ""

\* lines 416-455: the tasks coordinateChat pushes; getExternalInfo returns a promise,
\* which is truthy, so the external task is always pushed
Scheduled(body) ==
    (IF body.image # "" THEN {"image"} ELSE {})
    \cup (IF body.fileData # "" /\ body.fileName # "" THEN {"file"} ELSE {})
    \cup {"external"}

\* lines 176-190, 237, 289, 317: the external calls the tasks issue when they start,
\* in the order of the tasks
Lookups(body, intent) ==
    (IF "image" \in Scheduled(body) /\ Decodable(body.image) THEN <<"vision">> ELSE <<>>)
    \o (IF "file" \in Scheduled(body) /\ Extension(body.fileName) \in ImageExtensions
           /\ Decodable(body.fileData)
        THEN <<"vision">> ELSE <<>>)
    \o (CASE intent = "weather" -> <<"weather">>
          [] intent = "news" -> <<"search">>
          [] OTHER -> <<>>)

\* a buggy wrapper: a task that throws is not caught
CaughtUnlessThrown(kind, o) == o \notin {"throws", "undecodable"}

\* lines 170/214, 223/277, 285/308, 315/330 and 426, 441, 453: every throw of a task
\* is caught, in the function or by the .catch of its promise
Caught(kind, o) == TRUE

\* tn is the record of a turn: its body, and the branch getExternalInfo took when
\* line 448 called it
TaskOutcomes(tn, kind) ==
    CASE kind = "image" ->
            IF Decodable(tn.body.image) THEN VisionOutcomes ELSE {"undecodable"}
      [] kind = "file" -> FileOutcomes(tn.body.fileName)
      [] OTHER -> ExternalOutcomes(tn.intent)

\* line 390: only the date lookup reads the clock
TaskTimes(tn, kind) ==
    IF kind = "external" /\ tn.intent = "time" THEN Times ELSE {now}

\* lines 420-454: the data of a task
TaskData(tn, kind, o, t) ==
    CASE kind = "image" -> AnalyzeImage(o)
      [] kind = "file" -> ExtractTextFromFile(tn.body.fileName, o)
      [] OTHER -> ExternalData(tn.intent, tn.body.message, o, t)

\* lines 466-480: a bundle field, "" unless its task gave data
Context(results, kind) == IF Has(results, kind) THEN results[kind] ELSE ""

\* lines 483-485 (the directive is abridged)
SystemPrompt(t, externalContext) ==
    "You are a helpful AI assistant. Current date and time: " \o DateText(t) \o "."
      \o (IF externalContext # "" THEN "\n\n" \o externalContext ELSE "")

\* lines 491-498 (a buggy order: the file content before the image analysis)
UserMessageFileFirst(message, imageContext, fileContext) ==
    LET image == IF imageContext # ""
                 THEN "[IMAGE ANALYSIS]\n" \o imageContext \o "\n\n" ELSE ""
        file == IF fileContext # ""
                THEN "[FILE CONTENT]\n" \o fileContext \o "\n\n" ELSE ""
        sections == file \o image
    IN IF message # ""
       THEN IF sections # "" THEN sections \o "[USER'S QUESTION]\n" \o message
            ELSE message
       ELSE IF sections # ""
            THEN sections \o "Please analyze the "
                   \o (IF imageContext # "" THEN "image" ELSE "file")
                   \o " I've uploaded and provide detailed insights."
            ELSE "Hello! How can I help you today?"

\* lines 513-515 left out (a buggy assembler: no fallback)
UserMessageNoFallback(message, imageContext, fileContext) ==
    LET image == IF imageContext # ""
                 THEN "[IMAGE ANALYSIS]\n" \o imageContext \o "\n\n" ELSE ""
        file == IF fileContext # ""
                THEN "[FILE CONTENT]\n" \o fileContext \o "\n\n" ELSE ""
        sections == image \o file
    IN IF message # ""
       THEN IF sections # "" THEN sections \o "[USER'S QUESTION]\n" \o message
            ELSE message
       ELSE IF sections # ""
            THEN sections \o "Please analyze the "
                   \o (IF imageContext # "" THEN "image" ELSE "file")
                   \o " I've uploaded and provide detailed insights."
            ELSE ""

\* lines 487-515
UserMessage(message, imageContext, fileContext) ==
    LET image == IF imageContext # ""
                 THEN "[IMAGE ANALYSIS]\n" \o imageContext \o "\n\n" ELSE ""
        file == IF fileContext # ""
                THEN "[FILE CONTENT]\n" \o fileContext \o "\n\n" ELSE ""
        text == IF message # ""
                THEN IF imageContext # "" \/ fileContext # ""
                     THEN image \o file \o "[USER'S QUESTION]\n" \o message
                     ELSE message
                ELSE IF imageContext # "" \/ fileContext # ""
                     THEN image \o file \o "Please analyze the "
                            \o (IF imageContext # "" THEN "image" ELSE "file")
                            \o " I've uploaded and provide detailed insights."
                     ELSE ""
    IN IF text = "" THEN "Hello! How can I help you today?" ELSE text

\* line 528 (a buggy slice: the oldest ten messages)
HistorySliceOldest(history) ==
    LET h == SliceFirst(history, 10)
    IN [i \in 1..Len(h) |-> [role |-> h[i].role, content |-> h[i].content]]

\* line 528: history.slice(-10).map(m => ({ role, content }))
HistorySlice(history) ==
    LET h == SliceLast(history, 10)
    IN [i \in 1..Len(h) |-> [role |-> h[i].role, content |-> h[i].content]]

\* lines 526-530
GenerationRequest(system, history, userMessage) ==
    <<[role |-> "system", content |-> system]>>
      \o HistorySlice(history)
      \o <<[role |-> "user", content |-> userMessage]>>

\* what env.AI.run of the text model can do: a reply, an empty reply, no response
\* object, a throw
GenerationOutcomes == {"text", "empty", "absent", "throws"}

\* a buggy check: only a throw is a failure
UsableUnlessThrown(o) == o # "throws"

\* lines 525-537: the call returned, with a response whose text is truthy
Usable(o) == o = "text"

\* the calls a turn has made, in order
TaskCalls(body) ==
    (IF "image" \in Scheduled(body) THEN <<"analyzeImage">> ELSE <<>>)
    \o (IF "file" \in Scheduled(body) THEN <<"extractTextFromFile">> ELSE <<>>)
    \o <<"getExternalInfo">>

\* line 648 (a buggy preview: the message text even when it is empty)
PreviewRaw(message) == message

\* line 648: the preview
Preview(message) == IF message # "" THEN message ELSE "Sent an attachment"

Set(t, rec) == turns' = [turns EXCEPT ![t] = rec]

\* lines 616-629 and 401-455: read the body, validate, start the tasks
HandleChat(t, body) ==
    /\ turns[t].pc = "idle"
    /\ IF Invalid(body)
       THEN Set(t, [turns[t] EXCEPT !.pc = "done", !.body = body,
                       !.response = ErrorResponse("Message, image, or file is required")])
       ELSE Set(t, [turns[t] EXCEPT !.pc = "enrich", !.body = body,
                       !.pending = Scheduled(body), !.calls = TaskCalls(body),
                       !.intent = Intent(body.message),
                       !.lookups = Lookups(body, Intent(body.message))])
    /\ UNCHANGED <<messages, userContext, storage, suspended, now, nextId, nReq,
                   dirVars, hist, arrivals, acked, failed>>

\* lines 466-480 (a buggy merge: the fields are filled in the order the tasks settle)
TaskDoneByArrival(t, kind, o, d) ==
    /\ turns[t].pc = "enrich"
    /\ kind \in turns[t].pending
    /\ o \in TaskOutcomes(turns[t], kind)
    /\ IF Caught(kind, o)
       THEN Set(t, [turns[t] EXCEPT !.pending = @ \ {kind},
                       !.outcomes = Put(@, kind, o),
                       !.results = Put(@, <<"image", "file", "external">>[
                                               Cardinality(DOMAIN @) + 1],
                                         TaskData(turns[t], kind, o, d))])
       ELSE Set(t, [turns[t] EXCEPT !.pc = "done", !.outcomes = Put(@, kind, o),
                       !.response = ErrorResponse("task failed")])
    /\ now' = d
    /\ UNCHANGED <<messages, userContext, storage, suspended, nextId, nReq,
                   dirVars, hist, arrivals, acked, failed>>

\* lines 437-439 (a buggy task: the result of an image-typed file has the type image)
TaskDoneImageFile(t, kind, o, d) ==
    /\ turns[t].pc = "enrich"
    /\ kind \in turns[t].pending
    /\ o \in TaskOutcomes(turns[t], kind)
    /\ IF Caught(kind, o)
       THEN Set(t, [turns[t] EXCEPT !.pending = @ \ {kind},
                       !.outcomes = Put(@, kind, o),
                       !.results = Put(@, IF kind = "file" /\ Extension(turns[t].body.fileName)
                                                                \in ImageExtensions
                                            THEN "image" ELSE kind,
                                         TaskData(turns[t], kind, o, d))])
       ELSE Set(t, [turns[t] EXCEPT !.pc = "done", !.outcomes = Put(@, kind, o),
                       !.response = ErrorResponse("task failed")])
    /\ now' = d
    /\ UNCHANGED <<messages, userContext, storage, suspended, nextId, nReq,
                   dirVars, hist, arrivals, acked, failed>>

\* lines 420-454: one task settles
TaskDone(t, kind, o, d) ==
    /\ turns[t].pc = "enrich"
    /\ kind \in turns[t].pending
    /\ o \in TaskOutcomes(turns[t], kind)
    /\ IF Caught(kind, o)
       THEN Set(t, [turns[t] EXCEPT !.pending = @ \ {kind},
                       !.outcomes = Put(@, kind, o),
                       !.results = Put(@, kind, TaskData(turns[t], kind, o, d))])
       ELSE Set(t, [turns[t] EXCEPT !.pc = "done", !.outcomes = Put(@, kind, o),
                       !.response = ErrorResponse("task failed")])
    /\ now' = d
    /\ UNCHANGED <<messages, userContext, storage, suspended, nextId, nReq,
                   dirVars, hist, arrivals, acked, failed>>

\* line 457 left out (a buggy fan-in: the history is read while tasks are pending)
ReadHistoryEarly(t, d) ==
    /\ turns[t].pc = "enrich"
    /\ GetMessages(turns[t].body.sessionId)
    /\ LET r == turns[t].results
           b == turns[t].body
           user == UserMessage(b.message, Context(r, "image"), Context(r, "file"))
           history == messages'[b.sessionId]
       IN Set(t, [turns[t] EXCEPT !.pc = "generate", !.history = history,
                     !.userMessage = user,
                     !.calls = @ \o <<"getAll", "generate">>,
                     !.request = GenerationRequest(
                         SystemPrompt(d, Context(r, "external")), history, user)])
    /\ now' = d
    /\ UNCHANGED <<nextId, nReq, dirVars>>

\* lines 457-533: all tasks settled; read the history, build the request, call the model
ReadHistory(t, d) ==
    /\ turns[t].pc = "enrich"
    /\ turns[t].pending = {}
    /\ GetMessages(turns[t].body.sessionId)
    /\ LET r == turns[t].results
           b == turns[t].body
           user == UserMessage(b.message, Context(r, "image"), Context(r, "file"))
           history == messages'[b.sessionId]
       IN Set(t, [turns[t] EXCEPT !.pc = "generate", !.history = history,
                     !.userMessage = user,
                     !.calls = @ \o <<"getAll", "generate">>,
                     !.request = GenerationRequest(
                         SystemPrompt(d, Context(r, "external")), history, user)])
    /\ now' = d
    /\ UNCHANGED <<nextId, nReq, dirVars>>

\* lines 535-537 (a buggy turn: after an unusable reply it starts over from the history
\* read instead of throwing)
GenerateRetry(t, o) ==
    /\ turns[t].pc = "generate"
    /\ IF Usable(o)
       THEN /\ Set(t, [turns[t] EXCEPT !.pc = "postUser", !.generated = o,
                          !.aiResponse = IF o = "text" THEN ReplyText ELSE "",
                          !.calls = Append(@, "append")])
            /\ PostMessagesArrive(turns[t].body.sessionId, "user",
                                  turns[t].userMessage, t)
       ELSE /\ Set(t, [turns[t] EXCEPT !.pc = "enrich", !.history = <<>>,
                          !.userMessage = "", !.request = <<>>,
                          !.calls = TaskCalls(turns[t].body)])
            /\ UNCHANGED <<messages, userContext, storage, suspended,
                           hist, arrivals, acked, failed>>
    /\ UNCHANGED <<now, nextId, nReq, dirVars>>

\* lines 525-544: the model answers; without a usable reply the turn throws, with one
\* the user message is posted
Generate(t, o) ==
    /\ turns[t].pc = "generate"
    /\ IF Usable(o)
       THEN /\ Set(t, [turns[t] EXCEPT !.pc = "postUser", !.generated = o,
                          !.aiResponse = IF o = "text" THEN ReplyText ELSE "",
                          !.calls = Append(@, "append")])
            /\ PostMessagesArrive(turns[t].body.sessionId, "user",
                                  turns[t].userMessage, t)
       ELSE /\ Set(t, [turns[t] EXCEPT !.pc = "done", !.generated = o,
                          !.response = ErrorResponse(
                              IF o = "throws" THEN "AI failed"
                              ELSE "Invalid response from AI")])
            /\ UNCHANGED <<messages, userContext, storage, suspended,
                           hist, arrivals, acked, failed>>
    /\ UNCHANGED <<now, nextId, nReq, dirVars>>

\* lines 129-140 for a POST /messages of turn t, and the turn's await of it
PostResume(t, i, d, ok) ==
    LET k == turns[t].body.sessionId
    IN /\ turns[t].pc \in {"postUser", "postAssistant"}
       /\ i \in 1..Len(suspended[k])
       /\ suspended[k][i].caller = t
       /\ PostMessagesResume(k, i, d, ok)
       /\ LET r == suspended[k][i]
              pushed == Append(turns[t].pushed,
                               [key |-> k, role |-> r.role, content |-> r.content])
          IN IF ok
             THEN Set(t, [turns[t] EXCEPT !.pushed = pushed,
                             !.pc = IF @ = "postUser" THEN "userPosted"
                                    ELSE "assistantPosted"])
             ELSE Set(t, [turns[t] EXCEPT !.pushed = pushed, !.pc = "done",
                             !.response = ErrorResponse("storage failed")])
       /\ UNCHANGED <<nextId, nReq, dirVars>>

\* lines 546-549: post the reply
PostAssistant(t) ==
    /\ turns[t].pc = "userPosted"
    /\ Set(t, [turns[t] EXCEPT !.pc = "postAssistant", !.calls = Append(@, "append")])
    /\ PostMessagesArrive(turns[t].body.sessionId, "assistant", turns[t].aiResponse, t)
    /\ UNCHANGED <<now, nextId, nReq, dirVars>>

\* lines 546-549 after 640-650 (a buggy order: the preview update before the reply is appended)
PutSessionEarly(t) ==
    /\ turns[t].pc = "userPosted"
    /\ Set(t, [turns[t] EXCEPT !.pc = "putSession", !.preview = "sent",
                  !.calls = Append(@, "update")])
    /\ PutSessionsArrive([id |-> turns[t].body.sessionId,
                          lastMessage |-> Preview(turns[t].body.message)], t)
    /\ UNCHANGED <<messages, userContext, storage, suspended, now, nextId, nReq,
                   hist, arrivals, acked, failed>>

\* lines 551 and 640-650: coordinateChat returns; the preview update is sent
PutSession(t) ==
    /\ turns[t].pc = "assistantPosted"
    /\ Set(t, [turns[t] EXCEPT !.pc = "putSession", !.preview = "sent",
                  !.calls = Append(@, "update")])
    /\ PutSessionsArrive([id |-> turns[t].body.sessionId,
                          lastMessage |-> Preview(turns[t].body.message)], t)
    /\ UNCHANGED <<messages, userContext, storage, suspended, now, nextId, nReq,
                   hist, arrivals, acked, failed>>

\* lines 66-79 for the PUT of turn t, then lines 652-676: the answer of handleChat
PutResume(t, i, d, ok) ==
    /\ turns[t].pc = "putSession"
    /\ i \in 1..Len(sessSuspended)
    /\ sessSuspended[i].caller = t
    /\ PutSessionsResume(i, d, ok)
    /\ Set(t, [turns[t] EXCEPT !.pc = "done",
                  !.preview = CASE PutSessionsStatus(i, ok) = 0 -> "threw"
                                [] PutSessionsStatus(i, ok) = 404 -> "missing"
                                [] OTHER -> "updated",
                  !.response = IF PutSessionsStatus(i, ok) = 0
                               THEN ErrorResponse("storage failed")
                               ELSE OkResponse(turns[t].aiResponse,
                                               turns[t].body.sessionId)])
    /\ UNCHANGED <<messages, userContext, storage, suspended, nextId, nReq,
                   hist, arrivals, acked, failed>>

-----------------------------------------------------------------------------
(* The SessionLog under direct requests *)

\* the directory an earlier life of the object left: two chats, none for "s2"
PriorSessions ==
    <<Session("s0", "Older chat", "bye", 0, 0), Session("s1", "New Chat", "", 0, 0)>>

InitLog ==
    /\ sessions = <<>>
    /\ sessStorage = Put(EmptyMap, "sessions", PriorSessions)
    /\ sessSuspended = <<>>
    /\ turns = [t \in Turns |-> IdleTurn]
    /\ messages = [k \in Keys |-> <<>>]
    /\ userContext = [k \in Keys |-> EmptyMap]
    /\ \E n \in PriorLens :
          /\ storage = [k \in Keys |->
                IF n = 0 THEN EmptyMap ELSE Put(EmptyMap, "messages", Prior(n))]
          /\ nextId = n + 1
    /\ suspended = [k \in Keys |-> <<>>]
    /\ now = 0
    /\ nReq = 0
    /\ hist = [k \in Keys |-> <<>>]
    /\ arrivals = [k \in Keys |-> <<>>]
    /\ acked = [k \in Keys |-> {}]
    /\ failed = [k \in Keys |-> {}]
    /\ last = [op |-> "init", key |-> "", ok |-> TRUE]

LogGet(k) ==
    /\ GetMessages(k)
    /\ last' = [op |-> "getAll", key |-> k, ok |-> TRUE]
    /\ UNCHANGED <<now, nextId, nReq>>
    /\ UNCHANGED <<dirVars, turns>>

LogAppendArrive(k) ==
    /\ nReq < MaxRequests
    /\ \E role \in Roles : PostMessagesArrive(k, role, Content(nextId), "ext")
    /\ nextId' = nextId + 1
    /\ nReq' = nReq + 1
    /\ last' = [op |-> "arrive", key |-> k, ok |-> TRUE]
    /\ UNCHANGED <<now>>
    /\ UNCHANGED <<dirVars, turns>>

LogAppendResume(k) ==
    /\ \E i \in 1..Len(suspended[k]), t \in Times, ok \in BOOLEAN :
          /\ suspended[k][i].caller = "ext"
          /\ PostMessagesResume(k, i, t, ok)
          /\ last' = [op |-> "append", key |-> k, ok |-> ok]
    /\ UNCHANGED <<nextId, nReq>>
    /\ UNCHANGED <<dirVars, turns>>

LogClear(k) ==
    /\ \E ok \in BOOLEAN :
          /\ DeleteMessages(k, ok)
          /\ last' = [op |-> "clear", key |-> k, ok |-> ok]
    /\ UNCHANGED <<now, nextId, nReq>>
    /\ UNCHANGED <<dirVars, turns>>

LogMergeArrive(k) ==
    /\ nReq < MaxRequests
    /\ \E body \in Bodies : PostContextArrive(k, body, "ext")
    /\ nReq' = nReq + 1
    /\ last' = [op |-> "arrive", key |-> k, ok |-> TRUE]
    /\ UNCHANGED <<now, nextId>>
    /\ UNCHANGED <<dirVars, turns>>

LogMergeResume(k) ==
    /\ \E i \in 1..Len(suspended[k]), t \in Times, ok \in BOOLEAN :
          /\ PostContextResume(k, i, t, ok)
          /\ last' = [op |-> "mergeContext", key |-> k, ok |-> ok]
    /\ UNCHANGED <<nextId, nReq>>
    /\ UNCHANGED <<dirVars, turns>>

LogRestart(k) ==
    /\ Restart(k)
    /\ last' = [op |-> "restart", key |-> k, ok |-> TRUE]
    /\ UNCHANGED <<now, nextId, nReq>>
    /\ UNCHANGED <<dirVars, turns>>

NextLog ==
    \E k \in LogKeys :
        \/ LogGet(k)
        \/ LogAppendArrive(k)
        \/ LogAppendResume(k)
        \/ LogClear(k)
        \/ LogMergeArrive(k)
        \/ LogMergeResume(k)
        \/ LogRestart(k)

SpecLog == InitLog /\ [][NextLog]_vars

-----------------------------------------------------------------------------
(* One turn of POST /api/chat *)

ChatMessages == {"", "hi", "weather in Paris?"}
Images == {"", "data:image/png;base64,aQ=="}
FileDatas == {"", "data:text/plain;base64,aGk="}
FileNames == {"", "notes.txt", "photo.PNG"}

ChatBodies ==
    [message : ChatMessages, sessionId : Keys, image : Images,
     fileName : FileNames, fileData : FileDatas]

TurnIds == {"t1"}

TurnStart(t) ==
    /\ \E body \in ChatBodies : HandleChat(t, body)
    /\ last' = [op |-> "handleChat", key |-> t, ok |-> TRUE]

TurnTaskDone(t) ==
    /\ turns[t].pc = "enrich"
    /\ \E kind \in turns[t].pending :
          \E o \in TaskOutcomes(turns[t], kind), d \in TaskTimes(turns[t], kind) :
              TaskDone(t, kind, o, d)
    /\ last' = [op |-> "task", key |-> t, ok |-> TRUE]

TurnReadHistory(t) ==
    /\ \E d \in Times : ReadHistory(t, d)
    /\ last' = [op |-> "history", key |-> t, ok |-> TRUE]

TurnGenerate(t) ==
    /\ \E o \in GenerationOutcomes :
          /\ Generate(t, o)
          /\ last' = [op |-> "generate", key |-> t, ok |-> Usable(o)]

TurnPostResume(t) ==
    /\ turns[t].pc \in {"postUser", "postAssistant"}
    /\ \E i \in 1..Len(suspended[turns[t].body.sessionId]), d \in Times, ok \in BOOLEAN :
        /\ PostResume(t, i, d, ok)
        /\ last' = [op |-> "append", key |-> turns[t].body.sessionId, ok |-> ok]

TurnPostAssistant(t) ==
    /\ PostAssistant(t)
    /\ last' = [op |-> "arrive", key |-> t, ok |-> TRUE]

TurnPutSession(t) ==
    /\ PutSession(t)
    /\ last' = [op |-> "arrive", key |-> t, ok |-> TRUE]

TurnPutResume(t) ==
    \E i \in 1..Len(sessSuspended), d \in Times, ok \in BOOLEAN :
        /\ PutResume(t, i, d, ok)
        /\ last' = [op |-> "update", key |-> t, ok |-> PutSessionsStatus(i, ok) # 0]

NextTurn ==
    \E t \in TurnIds :
        \/ TurnStart(t)
        \/ TurnTaskDone(t)
        \/ TurnReadHistory(t)
        \/ TurnGenerate(t)
        \/ TurnPostResume(t)
        \/ TurnPostAssistant(t)
        \/ TurnPutSession(t)
        \/ TurnPutResume(t)

SpecTurn == InitLog /\ [][NextTurn]_vars

-----------------------------------------------------------------------------
(* Views used by the properties *)

Contents(list) == {list[i].content : i \in 1..Len(list)}

Count(c, list) == Cardinality({i \in 1..Len(list) : list[i].content = c})

Index(c, seq) == CHOOSE i \in 1..Len(seq) : seq[i] = c

\* what a freshly constructed object answers to GET /messages
RestartedMessages(k) ==
    IF Has(storage[k], "messages") THEN storage[k].messages ELSE <<>>

RestartedContext(k) ==
    IF Has(storage[k], "userContext") THEN storage[k].userContext ELSE EmptyMap

NoAppendSuspended(k) ==
    \A i \in 1..Len(suspended[k]) : suspended[k][i].path # "/messages"

-----------------------------------------------------------------------------
(* C1 - rolling window.  hist[k] is what the log held when it was last     *)
(* hydrated or cleared, followed by every message appended since, so       *)
(* n = Len(hist[k]).  After every step the in-memory list has at most 50   *)
(* messages and is exactly the last min(n, 50) entries of hist[k], in      *)
(* order; after an append that answered success the durable list is the    *)
(* same list.                                                              *)
C1_RollingWindow ==
    \A k \in Keys :
        LET n == Len(hist[k])
            len == Len(messages[k])
        IN /\ len <= 50
           /\ len = Min(n, 50)
           /\ \A i \in 1..len : messages[k][i] = hist[k][n - len + i]
           /\ (last.op = "append" /\ last.key = k /\ last.ok)
                 => /\ Has(storage[k], "messages")
                    /\ storage[k].messages = messages[k]

\* an append has evicted the oldest message
C1_Witness ==
    \E k \in Keys :
        /\ last.op = "append" /\ last.key = k /\ last.ok
        /\ Len(hist[k]) > 50
        /\ Len(messages[k]) = 50

(* C6 - no lost update.  When no append request is in flight, every        *)
(* message whose append answered success and that is among the last 50     *)
(* of hist[k] occurs exactly once in the in-memory list and exactly once   *)
(* in the durable list.                                                    *)
C6_NoLostUpdate ==
    \A k \in Keys :
        NoAppendSuspended(k) =>
            \A c \in acked[k] :
                c \in Contents(SliceLast(hist[k], 50)) =>
                    /\ Count(c, messages[k]) = 1
                    /\ Has(storage[k], "messages")
                    /\ Count(c, storage[k].messages) = 1

\* two appends were in flight together, both answered success, none is in flight
C6_Witness ==
    \E k \in Keys :
        /\ NoAppendSuspended(k)
        /\ Cardinality(acked[k]) >= 2
        /\ Len(messages[k]) = 50
        /\ \E i, j \in 1..Len(messages[k]) :
              /\ i < j
              /\ messages[k][i].content \in acked[k]
              /\ messages[k][j].content \in acked[k]
              /\ Index(messages[k][j].content, arrivals[k])
                   < Index(messages[k][i].content, arrivals[k])

(* C7 - arrival order.  Of two messages of the stored list that came by    *)
(* POST /messages, the one whose request reached the object first stands   *)
(* first.                                                                  *)
C7_ArrivalOrder ==
    \A k \in Keys :
        \A i, j \in 1..Len(messages[k]) :
            LET ci == messages[k][i].content
                cj == messages[k][j].content
            IN (/\ i < j
                /\ \E a \in 1..Len(arrivals[k]) : arrivals[k][a] = ci
                /\ \E a \in 1..Len(arrivals[k]) : arrivals[k][a] = cj)
               => Index(ci, arrivals[k]) < Index(cj, arrivals[k])

(* C8 - no partial write.  GET /messages never answers a message whose     *)
(* append threw at storage.put.                                            *)
C8_NoPartialWrite ==
    \A k \in Keys : Contents(GetAllMessages(k)) \cap failed[k] = {}

(* C9 as claimed - after every mergeContext step each field of the partial *)
(* has the partial's value (a later value overwrites the earlier one), no  *)
(* field that was there is removed, and merging the same partial once more *)
(* leaves the fields of the partial with the same values.                  *)
C9_ShallowMerge ==
    [][\A k \in Keys : \A i \in 1..Len(suspended[k]) : \A t \in Times : \A ok \in BOOLEAN :
          PostContextResume(k, i, t, ok) =>
              LET b == suspended[k][i].body
                  ctx == userContext[k]
                  once == userContext'[k]
              IN /\ \A f \in DOMAIN b : f \in DOMAIN once /\ once[f] = b[f]
                 /\ \A f \in DOMAIN ctx : f \in DOMAIN once
                 /\ \A t2 \in t..MaxTime : \A f \in DOMAIN b :
                       MergedContext(once, b, t2)[f] = once[f]]_vars

(* C9 as amended - the same for every field other than lastActivity, which *)
(* every merge sets to the current time whatever the partial holds.        *)
C9_ShallowMergeButLastActivity ==
    [][\A k \in Keys : \A i \in 1..Len(suspended[k]) : \A t \in Times : \A ok \in BOOLEAN :
          PostContextResume(k, i, t, ok) =>
              LET b == suspended[k][i].body
                  ctx == userContext[k]
                  once == userContext'[k]
                  F == CtxFields \ {"lastActivity"}
              IN /\ DOMAIN once = DOMAIN ctx \cup DOMAIN b \cup {"lastActivity"}
                 /\ \A f \in DOMAIN b \cap F : once[f] = b[f]
                 /\ \A f \in (DOMAIN ctx \ DOMAIN b) \cap F : once[f] = ctx[f]
                 /\ once["lastActivity"] = t
                 /\ \A t2 \in t..MaxTime :
                       LET twice == MergedContext(once, b, t2)
                       IN /\ DOMAIN twice = DOMAIN once
                          /\ \A f \in DOMAIN once \cap F : twice[f] = once[f]
                          /\ twice["lastActivity"] = t2]_vars

\* two merges have happened: {a: ..} and {b: ..}, both fields are there
C9_Witness ==
    \E k \in Keys :
        /\ last.op = "mergeContext" /\ last.key = k
        /\ {"a", "b", "lastActivity"} \subseteq DOMAIN userContext[k]
        /\ nReq = 2

(* C10 - clear.  A clear that answers success leaves the in-memory and the *)
(* durable message list empty and the durable userContext as it was; the   *)
(* GET /messages that follows answers no message and the userContext that  *)
(* GET /messages answered before the clear, and so does a freshly          *)
(* constructed object.                                                     *)
C10_Clear ==
    [][\A k \in Keys :
          DeleteMessages(k, TRUE) =>
              /\ messages'[k] = <<>>
              /\ ~Has(storage'[k], "messages")
              /\ Has(storage'[k], "userContext") = Has(storage[k], "userContext")
              /\ RestartedContext(k)' = RestartedContext(k)
              /\ GetAllMessages(k)' = <<>>
              /\ RestartedMessages(k)' = <<>>
              /\ GetAllContext(k)' = GetAllContext(k)]_vars

-----------------------------------------------------------------------------
(* The enrichment of one turn, up to the generation call *)

EnrichBodies ==
    [message : {"", "hi", "Trains in Paris?", "weather today in Paris?",
                "Temperature today", "latest weather", "latest news"},
     sessionId : {"s1"},
     image : {"", "data:image/png;base64,aQ==", "data:image/png;base64,%%"},
     fileName : {"", "notes.txt", "photo.PNG", "data.bin"}, fileData : FileDatas]

InitEnrich == InitLog /\ nextId = 1

EnrichStart(t) ==
    /\ \E body \in EnrichBodies : HandleChat(t, body)
    /\ last' = [op |-> "handleChat", key |-> t, ok |-> TRUE]

NextEnrich ==
    \E t \in TurnIds :
        \/ EnrichStart(t)
        \/ TurnTaskDone(t)
        \/ TurnReadHistory(t)

SpecEnrich == InitEnrich /\ [][NextEnrich]_vars

-----------------------------------------------------------------------------
(* The SessionDirectory under direct requests *)

FreshIds == {"session-a"}

CreateBodies == {[id |-> "s1", name |-> ""], [id |-> "s2", name |-> "Trip"], EmptyMap}

UpdateBodies ==
    {[id |-> "s1", name |-> "X"], [id |-> "s1", lastMessage |-> "hey"],
     [id |-> "s1", name |-> "X", lastMessage |-> "hey"],
     [id |-> "s1", name |-> "", lastMessage |-> ""],
     [id |-> "s2", name |-> "X"]}

RemoveBodies == {[id |-> i] : i \in {"s1", "s2"}}

InitDir ==
    /\ sessions = <<>>
    /\ sessStorage \in {EmptyMap, Put(EmptyMap, "sessions", PriorSessions)}
    /\ sessSuspended = <<>>
    /\ turns = [t \in Turns |-> IdleTurn]
    /\ messages = [k \in Keys |-> <<>>]
    /\ userContext = [k \in Keys |-> EmptyMap]
    /\ storage = [k \in Keys |-> EmptyMap]
    /\ nextId = 1
    /\ suspended = [k \in Keys |-> <<>>]
    /\ now = 0
    /\ nReq = 0
    /\ hist = [k \in Keys |-> <<>>]
    /\ arrivals = [k \in Keys |-> <<>>]
    /\ acked = [k \in Keys |-> {}]
    /\ failed = [k \in Keys |-> {}]
    /\ last = [op |-> "init", key |-> "", ok |-> TRUE]

logVars == <<messages, userContext, storage, suspended, nextId, turns,
             hist, arrivals, acked, failed>>

DirList ==
    /\ GetSessions
    /\ last' = [op |-> "list", key |-> "", ok |-> TRUE]
    /\ UNCHANGED <<now, nReq, logVars>>

DirCreateArrive ==
    /\ nReq < MaxRequests
    /\ \E body \in CreateBodies : PostSessionsArrive(body, "ext")
    /\ nReq' = nReq + 1
    /\ last' = [op |-> "arrive", key |-> "", ok |-> TRUE]
    /\ UNCHANGED <<now, logVars>>

DirCreateResume ==
    /\ \E i \in 1..Len(sessSuspended), rid \in FreshIds, t1 \in Times, ok \in BOOLEAN :
          \E t2 \in {t \in {t1, t1 + 1} : t <= MaxTime} :
              /\ PostSessionsResume(i, rid, t1, t2, ok)
              /\ last' = [op |-> "create",
                          key |-> NewId(sessSuspended[i].body, rid), ok |-> ok]
    /\ UNCHANGED <<nReq, logVars>>

DirUpdateArrive ==
    /\ nReq < MaxRequests
    /\ \E body \in UpdateBodies : PutSessionsArrive(body, "ext")
    /\ nReq' = nReq + 1
    /\ last' = [op |-> "arrive", key |-> "", ok |-> TRUE]
    /\ UNCHANGED <<now, logVars>>

DirUpdateResume ==
    /\ \E i \in 1..Len(sessSuspended), t \in Times, ok \in BOOLEAN :
          /\ PutSessionsResume(i, t, ok)
          /\ last' = [op |-> "update", key |-> sessSuspended[i].body.id,
                      ok |-> PutSessionsStatus(i, ok) = 200]
    /\ UNCHANGED <<nReq, logVars>>

DirRemoveArrive ==
    /\ nReq < MaxRequests
    /\ \E body \in RemoveBodies : DeleteSessionsArrive(body, "ext")
    /\ nReq' = nReq + 1
    /\ last' = [op |-> "arrive", key |-> "", ok |-> TRUE]
    /\ UNCHANGED <<now, logVars>>

\* lines 85-86 (a buggy remove: the log of the removed id is deleted with the summary)
DirRemoveResumeCascade ==
    /\ \E i \in 1..Len(sessSuspended), ok \in BOOLEAN :
          /\ DeleteSessionsResume(i, ok)
          /\ last' = [op |-> "remove", key |-> sessSuspended[i].body.id, ok |-> ok]
          /\ storage' = [k \in Keys |->
                IF k = sessSuspended[i].body.id THEN EmptyMap ELSE storage[k]]
          /\ messages' = [k \in Keys |->
                IF k = sessSuspended[i].body.id THEN <<>> ELSE messages[k]]
    /\ UNCHANGED <<now, nReq, userContext, suspended, nextId, turns,
                   hist, arrivals, acked, failed>>

DirRemoveResume ==
    /\ \E i \in 1..Len(sessSuspended), ok \in BOOLEAN :
          /\ DeleteSessionsResume(i, ok)
          /\ last' = [op |-> "remove", key |-> sessSuspended[i].body.id, ok |-> ok]
    /\ UNCHANGED <<now, nReq, logVars>>

DirRestart ==
    /\ RestartSessions
    /\ last' = [op |-> "restart", key |-> "", ok |-> TRUE]
    /\ UNCHANGED <<now, nReq, logVars>>

NextDir ==
    \/ DirList
    \/ DirCreateArrive
    \/ DirCreateResume
    \/ DirUpdateArrive
    \/ DirUpdateResume
    \/ DirRemoveArrive
    \/ DirRemoveResume
    \/ DirRestart

SpecDir == InitDir /\ [][NextDir]_vars

-----------------------------------------------------------------------------
(* Turns *)

Made(t, call) == SelectSeq(turns[t].calls, LAMBDA c : c = call)

Awaited(t) ==
    \/ \E k \in Keys : \E i \in 1..Len(suspended[k]) : suspended[k][i].caller = t
    \/ \E i \in 1..Len(sessSuspended) : sessSuspended[i].caller = t

(* C2 - a successful turn.  A turn answered with the reply has made exactly *)
(* two appends to the log of its sessionId: a user message holding the     *)
(* constructed user turn, then an assistant message holding the generated  *)
(* reply; they are the last two messages of the log, in memory and         *)
(* durably, after what the window keeps of the earlier ones; and the       *)
(* answer carries that same reply and the sessionId.                       *)
C2_TwoAppends ==
    \A t \in Turns :
        turns[t].pc = "done" /\ turns[t].response.status = 200 =>
            LET k == turns[t].body.sessionId
                r == turns[t].results
                m == messages[k]
                n == Len(m)
            IN /\ turns[t].userMessage =
                     UserMessage(turns[t].body.message, Context(r, "image"),
                                 Context(r, "file"))
               /\ turns[t].aiResponse = ReplyText
               /\ turns[t].pushed =
                     <<[key |-> k, role |-> "user", content |-> turns[t].userMessage],
                       [key |-> k, role |-> "assistant",
                        content |-> turns[t].aiResponse]>>
               /\ Made(t, "append") = <<"append", "append">>
               /\ n >= 2
               /\ m[n - 1].role = "user" /\ m[n - 1].content = turns[t].userMessage
               /\ m[n].role = "assistant" /\ m[n].content = turns[t].aiResponse
               /\ m[n - 1].timestamp <= m[n].timestamp
               /\ SubSeq(m, 1, n - 2) = SliceLast(turns[t].history, WindowSize - 2)
               /\ Has(storage[k], "messages") /\ storage[k]["messages"] = m
               /\ turns[t].response.response = turns[t].aiResponse
               /\ turns[t].response.sessionId = k
               /\ turns[t].response.error = ""

\* a turn with an image succeeded on a log that was one short of the window
C2_Witness ==
    \E t \in Turns :
        /\ turns[t].pc = "done" /\ turns[t].response.status = 200
        /\ turns[t].body.image # ""
        /\ Len(turns[t].history) = WindowSize - 1
        /\ Len(messages[turns[t].body.sessionId]) = WindowSize

(* C3 - validation.  A turn whose message, image and file data are all     *)
(* empty has ended with the validation error and has done nothing else: no *)
(* enrichment task started or settled, no call to the log, to generation   *)
(* or to the directory made or pending.                                    *)
C3_ValidationFirst ==
    \A t \in Turns :
        /\ turns[t].pc # "idle"
        /\ turns[t].body.message = ""
        /\ turns[t].body.image = ""
        /\ turns[t].body.fileData = ""
        => /\ turns[t].pc = "done"
           /\ turns[t].response = ErrorResponse("Message, image, or file is required")
           /\ turns[t].calls = <<>>
           /\ turns[t].pending = {} /\ turns[t].results = EmptyMap
           /\ turns[t].request = <<>> /\ turns[t].generated = ""
           /\ turns[t].pushed = <<>> /\ turns[t].preview = "none"
           /\ ~Awaited(t)
           /\ messages[turns[t].body.sessionId] = <<>>
           /\ sessions = <<>>

\* a turn that named a file but sent no data was refused
C3_Witness ==
    \E t \in Turns :
        /\ turns[t].pc = "done"
        /\ Invalid(turns[t].body)
        /\ turns[t].body.fileName # ""
        /\ turns[t].response.status = 500

(* C4 - generation failure.  A turn whose generation call threw, answered  *)
(* nothing or answered an empty reply has ended with an error, has made no *)
(* append to the log and no update of the directory: the log is as the     *)
(* turn read it and the directory has not been touched.                    *)
C4_NoPartialCommit ==
    \A t \in Turns :
        turns[t].generated \in GenerationOutcomes \ {"text"} =>
            /\ turns[t].pc = "done"
            /\ turns[t].response.status = 500
            /\ turns[t].response.response = ""
            /\ turns[t].pushed = <<>>
            /\ Made(t, "append") = <<>> /\ Made(t, "update") = <<>>
            /\ turns[t].preview = "none"
            /\ ~Awaited(t)
            /\ messages[turns[t].body.sessionId] = turns[t].history
            /\ sessions = <<>>

\* the model answered an empty reply to a turn on a log with history
C4_Witness ==
    \E t \in Turns :
        /\ turns[t].generated = "empty"
        /\ turns[t].pc = "done"
        /\ Len(turns[t].history) = WindowSize

(* C5 - preview failure.  A turn whose directory update threw after the    *)
(* reply was generated and both messages were appended still answers the   *)
(* reply.                                                                  *)
C5_PreviewFailureIgnored ==
    \A t \in Turns :
        turns[t].preview = "threw" /\ Len(turns[t].pushed) = 2 =>
            /\ turns[t].response.status = 200
            /\ turns[t].response.response = turns[t].aiResponse

-----------------------------------------------------------------------------
(* Directory *)

Ids(list) == {list[j].id : j \in 1..Len(list)}

Unique(list) == \A j1, j2 \in 1..Len(list) : list[j1].id = list[j2].id => j1 = j2

Stored == IF Has(sessStorage, "sessions") THEN sessStorage.sessions ELSE <<>>

Clock == 0..MaxTime

(* C11 - create.  A create puts the new summary at index 0 of the list: it *)
(* has the id asked for (the generated one when none was given), the name  *)
(* asked for or "New Chat", an empty preview and the creation time; the    *)
(* summaries listed before follow it, in their order and unchanged; a      *)
(* list() right after answers that list, and so does the durable record    *)
(* when the persist succeeded.                                             *)
C11_CreateAtFront ==
    [][\A i \in 1..Len(sessSuspended), rid \in FreshIds, t1 \in Clock, t2 \in Clock,
          ok \in BOOLEAN :
          PostSessionsResume(i, rid, t1, t2, ok) =>
              LET body == sessSuspended[i].body
                  listed == ListSessions'
              IN /\ Len(listed) = Len(sessions) + 1
                 /\ listed[1].id =
                       (IF "id" \in DOMAIN body /\ body.id # "" THEN body.id ELSE rid)
                 /\ listed[1].name =
                       (IF "name" \in DOMAIN body /\ body.name # "" THEN body.name
                        ELSE "New Chat")
                 /\ listed[1].lastMessage = ""
                 /\ listed[1].createdAt = t1
                 /\ \A j \in 1..Len(sessions) : listed[j + 1] = sessions[j]
                 /\ ok => Stored' = listed]_vars

\* a create without a name came on top of the two earlier summaries
C11_Witness ==
    /\ last.op = "create" /\ last.ok
    /\ Len(sessions) = 3
    /\ sessions[1].name = "New Chat" /\ sessions[1].id = last.key
    /\ sessions[2].id = "s0" /\ sessions[3].id = "s1"

(* C12 - update, as claimed.  An update of an id the list holds sets name  *)
(* to the name given whenever one is given, the preview to the preview     *)
(* given whenever one is given, updatedAt to the current time, and changes *)
(* nothing else: id, createdAt, position, length, the other summaries.     *)
C12_UpdateFrame ==
    [][\A i \in 1..Len(sessSuspended), t \in Clock, ok \in BOOLEAN :
          /\ PutSessionsResume(i, t, ok)
          /\ sessSuspended[i].body.id \in Ids(sessions)
          => LET body == sessSuspended[i].body
                 idx == CHOOSE j \in 1..Len(sessions) :
                           /\ sessions[j].id = body.id
                           /\ \A j2 \in 1..(j - 1) : sessions[j2].id # body.id
             IN /\ Len(sessions') = Len(sessions)
                /\ \A j \in 1..Len(sessions) : j # idx => sessions'[j] = sessions[j]
                /\ sessions'[idx].id = sessions[idx].id
                /\ sessions'[idx].createdAt = sessions[idx].createdAt
                /\ sessions'[idx].updatedAt = t
                /\ sessions'[idx].name =
                      (IF "name" \in DOMAIN body THEN body.name ELSE sessions[idx].name)
                /\ sessions'[idx].lastMessage =
                      (IF "lastMessage" \in DOMAIN body THEN body.lastMessage
                       ELSE sessions[idx].lastMessage)
                /\ ok => Stored' = sessions']_vars

(* C12 - update, amended.  The same, but a name is applied only when it is *)
(* given and not empty; an empty name leaves the name as it was.           *)
C12_UpdateFrameNonEmptyName ==
    [][\A i \in 1..Len(sessSuspended), t \in Clock, ok \in BOOLEAN :
          /\ PutSessionsResume(i, t, ok)
          /\ sessSuspended[i].body.id \in Ids(sessions)
          => LET body == sessSuspended[i].body
                 idx == CHOOSE j \in 1..Len(sessions) :
                           /\ sessions[j].id = body.id
                           /\ \A j2 \in 1..(j - 1) : sessions[j2].id # body.id
             IN /\ Len(sessions') = Len(sessions)
                /\ \A j \in 1..Len(sessions) : j # idx => sessions'[j] = sessions[j]
                /\ sessions'[idx].id = sessions[idx].id
                /\ sessions'[idx].createdAt = sessions[idx].createdAt
                /\ sessions'[idx].updatedAt = t
                /\ sessions'[idx].name =
                      (IF "name" \in DOMAIN body /\ body.name # "" THEN body.name
                       ELSE sessions[idx].name)
                /\ sessions'[idx].lastMessage =
                      (IF "lastMessage" \in DOMAIN body THEN body.lastMessage
                       ELSE sessions[idx].lastMessage)
                /\ ok => Stored' = sessions']_vars

\* the second summary was renamed and given a preview, and is still the second
C12_Witness ==
    /\ last.op = "update" /\ last.ok /\ last.key = "s1"
    /\ Len(sessions) = 2
    /\ sessions[2].id = "s1" /\ sessions[2].name = "X"
    /\ sessions[2].lastMessage = "hey" /\ sessions[2].updatedAt = 1
    /\ Stored = sessions

(* C13 - update of an unknown id.  An update of an id no summary has       *)
(* answers 404 and changes neither the in-memory list nor the durable      *)
(* record, hence nothing GET /sessions answers.                            *)
C13_UpdateNotFound ==
    [][\A i \in 1..Len(sessSuspended), t \in Clock, ok \in BOOLEAN :
          /\ PutSessionsResume(i, t, ok)
          /\ sessSuspended[i].body.id \notin Ids(sessions)
          => /\ PutSessionsStatus(i, ok) = 404
             /\ sessions' = sessions
             /\ sessStorage' = sessStorage
             /\ ListSessions' = ListSessions]_vars

\* an update of "s2" was refused while two other summaries were listed
C13_Witness ==
    /\ last.op = "update" /\ ~last.ok /\ last.key = "s2"
    /\ Len(sessions) = 2
    /\ "s2" \notin Ids(sessions)
    /\ sessions = Stored

(* C14 - ids, as claimed.  No two summaries of the list, in memory or      *)
(* durable, have the same id.                                              *)
C14_UniqueIds == Unique(sessions) /\ Unique(Stored)

(* C14 - ids, amended.  A step keeps the ids of the list distinct, in      *)
(* memory and durably, unless it is a create whose id (the one given, or   *)
(* the generated one when none is given) a listed summary already has.     *)
C14_UniqueIdsUnlessRecreated ==
    [][/\ Unique(sessions) /\ Unique(Stored)
       /\ ~\E i \in 1..Len(sessSuspended), rid \in FreshIds, t1 \in Clock, t2 \in Clock,
             ok \in BOOLEAN :
             /\ PostSessionsResume(i, rid, t1, t2, ok)
             /\ (IF "id" \in DOMAIN sessSuspended[i].body /\ sessSuspended[i].body.id # ""
                 THEN sessSuspended[i].body.id ELSE rid) \in Ids(sessions)
       => Unique(sessions') /\ Unique(Stored')]_vars

\* two creates with new ids, one given and one generated, on the two earlier summaries
C14_Witness ==
    /\ last.op = "create" /\ last.ok
    /\ Len(sessions) = 4 /\ Unique(sessions)
    /\ "s2" \in Ids(sessions) /\ Ids(sessions) \cap FreshIds # {}
    /\ Stored = sessions

(* C15 - remove.  A remove leaves the summaries whose id is not the given  *)
(* one, in their order and unchanged, whether a summary had the id or not; *)
(* it fails only when the persist throws; when it succeeds the durable     *)
(* record and what list() answers are that list, without the id.           *)
C15_Remove ==
    [][\A i \in 1..Len(sessSuspended), ok \in BOOLEAN :
          DeleteSessionsResume(i, ok) =>
              LET id == sessSuspended[i].body.id
                  kept == SelectSeq(sessions, LAMBDA sess : sess.id # id)
              IN /\ sessions' = kept
                 /\ id \notin Ids(sessions')
                 /\ ok => /\ Stored' = kept
                          /\ ListSessions' = kept
                          /\ id \notin Ids(ListSessions')]_vars

\* the only request was a remove of an id no summary had, and it succeeded
C15_Witness ==
    /\ last.op = "remove" /\ last.ok /\ last.key = "s2"
    /\ nReq = 1
    /\ sessions = PriorSessions /\ Stored = PriorSessions

-----------------------------------------------------------------------------
(* Enrichment *)

HasWord(message, words) == \E w \in words : Includes(ToLowerCase(message), w)

WeatherWords == {"weather", "temperature"}
TimeWords == {"time", "date", "day"}
NewsWords == {"news", "latest", "current"}

NoAttachment(body) == body.image = "" /\ body.fileData = ""

HasInput(body) == ~(body.message = "" /\ body.image = "" /\ body.fileData = "")

\* the weather and search calls among the external calls of a turn
ExternalLookups(tn) == SelectSeq(tn.lookups, LAMBDA c : c \in {"weather", "search"})

Settled(tn, kind) == kind \in DOMAIN tn.outcomes

(* C16 - nothing to enrich.  A turn with a message, no image, no file data *)
(* and none of the intent words in the message issues no external call     *)
(* (vision, weather, search), and every task result it collects is empty,  *)
(* so the three contexts of the bundle are empty and the system message    *)
(* has nothing appended.                                                   *)
C16_EmptyBundle ==
    \A t \in Turns :
        LET tn == turns[t]
        IN /\ tn.pc # "idle"
           /\ HasInput(tn.body) /\ NoAttachment(tn.body)
           /\ ~HasWord(tn.body.message, WeatherWords \cup TimeWords \cup NewsWords)
           => /\ tn.lookups = <<>>
              /\ \A kind \in DOMAIN tn.results : tn.results[kind] = ""
              /\ \A kind \in {"image", "file", "external"} : Context(tn.results, kind) = ""
              /\ tn.pc = "generate" =>
                    /\ tn.userMessage = tn.body.message
                    /\ \E d \in Clock : tn.request[1].content = SystemPrompt(d, "")

\* a question that names a city but no intent word went to generation
C16_Witness ==
    \E t \in Turns :
        /\ turns[t].pc = "generate"
        /\ turns[t].body.message = "Trains in Paris?"
        /\ NoAttachment(turns[t].body)
        /\ turns[t].body.fileName # ""

(* C17 - no task.  A turn with no image, no file data and none of the      *)
(* intent words in the message has no enrichment task to await: none is    *)
(* pending and none settles.                                               *)
C17_NoTaskScheduled ==
    \A t \in Turns :
        LET tn == turns[t]
        IN /\ tn.pc # "idle"
           /\ HasInput(tn.body) /\ NoAttachment(tn.body)
           /\ ~HasWord(tn.body.message, WeatherWords \cup TimeWords \cup NewsWords)
           => tn.pending = {} /\ tn.outcomes = EmptyMap

(* C18 - priority, as claimed.  A turn whose message contains "weather" or *)
(* "temperature" runs the weather lookup and no search, and its external   *)
(* result is the one of the weather lookup.                                *)
C18_WeatherFirst ==
    \A t \in Turns :
        LET tn == turns[t]
        IN /\ tn.pc \notin {"idle", "done"}
           /\ HasWord(tn.body.message, WeatherWords)
           => /\ ExternalLookups(tn) = <<"weather">>
              /\ Settled(tn, "external") =>
                    \E o \in {"found", "notfound", "throws"} :
                        tn.results["external"] = GetWeather(City(tn.body.message), o)

(* C18 - priority, amended.  The weather intent matches when the message   *)
(* contains "weather" or "temperature" and a city phrase ("in", letters    *)
(* and spaces, then "?", "." or the end); the first of weather, time       *)
(* (time/date/day) and news (news/latest/current) that matches decides the *)
(* one external lookup and the external result; a message with a weather   *)
(* word and no city phrase is decided by time, then news.                  *)
C18_WeatherFirstWithCity ==
    \A t \in Turns :
        LET tn == turns[t]
            m == tn.body.message
            weather == HasWord(m, WeatherWords) /\ CityMatches(m) # {}
            time == HasWord(m, TimeWords)
            news == HasWord(m, NewsWords)
            data == tn.results["external"]
        IN tn.pc \notin {"idle", "done"} =>
              IF weather
              THEN /\ ExternalLookups(tn) = <<"weather">>
                   /\ Settled(tn, "external") =>
                         \E o \in {"found", "notfound", "throws"} :
                             data = GetWeather(City(m), o)
              ELSE IF time
              THEN /\ ExternalLookups(tn) = <<>>
                   /\ Settled(tn, "external") =>
                         \E d \in Clock :
                             data = "Current date and time: " \o DateText(d) \o " (UTC)"
              ELSE IF news
              THEN /\ ExternalLookups(tn) = <<"search">>
                   /\ Settled(tn, "external") =>
                         \E o \in {"found", "notfound", "throws"} : data = WebSearch(m, o)
              ELSE /\ ExternalLookups(tn) = <<>>
                   /\ Settled(tn, "external") => data = ""

\* a message with a weather word, a time word and a city got the weather of the city
C18_Witness ==
    \E t \in Turns :
        /\ turns[t].pc = "generate"
        /\ turns[t].body.message = "weather today in Paris?"
        /\ turns[t].results["external"] = "Weather in Paris: Clear sky"
        /\ turns[t].lookups = <<"weather">>

(* C19 - weather failure.  A turn with a weather question naming a city    *)
(* and no attachment issues the weather lookup and no other call; when the *)
(* lookup throws, the external context is empty, nothing is appended to    *)
(* the system message and the turn goes on.                                *)
C19_WeatherFailureEmpty ==
    \A t \in Turns :
        LET tn == turns[t]
        IN /\ tn.pc # "idle"
           /\ NoAttachment(tn.body)
           /\ HasWord(tn.body.message, WeatherWords)
           /\ CityMatches(tn.body.message) # {}
           => /\ tn.lookups = <<"weather">>
              /\ tn.response = NoResponse
              /\ Settled(tn, "external") /\ tn.outcomes["external"] = "throws" =>
                    /\ Context(tn.results, "external") = ""
                    /\ tn.pc = "generate" =>
                          \E d \in Clock : tn.request[1].content = SystemPrompt(d, "")

(* C20 - failures are absorbed.  While a turn with an input enriches, it   *)
(* has not failed and each scheduled task is pending or settled, whatever  *)
(* the others did; once it is past enrichment every scheduled task has     *)
(* settled and the generation call has been made.                          *)
C20_FailuresAbsorbed ==
    \A t \in Turns :
        LET tn == turns[t]
        IN tn.pc # "idle" /\ HasInput(tn.body) =>
              /\ tn.pending \cup DOMAIN tn.outcomes = Scheduled(tn.body)
              /\ tn.pending \cap DOMAIN tn.outcomes = {}
              /\ DOMAIN tn.results = DOMAIN tn.outcomes
              /\ tn.pc = "enrich" => tn.response = NoResponse
              /\ tn.pc # "enrich" =>
                    /\ tn.pending = {}
                    /\ Made(t, "generate") = <<"generate">>

\* the image could not be decoded, the file and the weather lookup threw, and the
\* generation call was made
C20_Witness ==
    \E t \in Turns :
        /\ turns[t].pc = "generate"
        /\ DOMAIN turns[t].outcomes = {"image", "file", "external"}
        /\ turns[t].outcomes["image"] = "undecodable"
        /\ turns[t].outcomes["file"] = "throws"
        /\ turns[t].outcomes["external"] = "throws"

-----------------------------------------------------------------------------
(* Prompt assembly over logs of several lengths *)

PromptLens == {0, 3, 10, 11, WindowSize}

PromptBodies ==
    [message : {"", "hi", "latest news"}, sessionId : {"s1"}, image : Images,
     fileName : {"", "notes.txt"}, fileData : FileDatas]

InitPrompt ==
    /\ sessions = <<>>
    /\ sessStorage = Put(EmptyMap, "sessions", PriorSessions)
    /\ sessSuspended = <<>>
    /\ turns = [t \in Turns |-> IdleTurn]
    /\ messages = [k \in Keys |-> <<>>]
    /\ userContext = [k \in Keys |-> EmptyMap]
    /\ \E n \in PromptLens :
          /\ storage = [k \in Keys |->
                IF n = 0 THEN EmptyMap ELSE Put(EmptyMap, "messages", Prior(n))]
          /\ nextId = n + 1
    /\ suspended = [k \in Keys |-> <<>>]
    /\ now = 0
    /\ nReq = 0
    /\ hist = [k \in Keys |-> <<>>]
    /\ arrivals = [k \in Keys |-> <<>>]
    /\ acked = [k \in Keys |-> {}]
    /\ failed = [k \in Keys |-> {}]
    /\ last = [op |-> "init", key |-> "", ok |-> TRUE]

PromptStart(t) ==
    /\ \E body \in PromptBodies : HandleChat(t, body)
    /\ last' = [op |-> "handleChat", key |-> t, ok |-> TRUE]

NextPrompt ==
    \E t \in TurnIds :
        \/ PromptStart(t)
        \/ TurnTaskDone(t)
        \/ TurnReadHistory(t)

SpecPrompt == InitPrompt /\ [][NextPrompt]_vars

(* C21 - the generation request.  When a turn calls the model, the request *)
(* is the system message, then the last min(10, n) of the n messages the   *)
(* log answered, in their order and as role/content pairs, then the user   *)
(* turn: n + 2 entries, never more than 12; with nothing from enrichment,  *)
(* a log of 3 messages and the message "hi" it has exactly 5 entries, the  *)
(* last one being "hi".                                                    *)
C21_GenerationRequest ==
    \A t \in Turns :
        LET tn == turns[t]
            h == tn.history
            n == Min(10, Len(h))
            r == tn.request
        IN tn.pc = "generate" =>
              /\ h = RestartedMessages(tn.body.sessionId)
              /\ Len(r) = n + 2
              /\ Len(r) <= 12
              /\ r[1].role = "system"
              /\ \A i \in 1..n :
                    r[1 + i] = [role |-> h[Len(h) - n + i].role,
                                content |-> h[Len(h) - n + i].content]
              /\ r[n + 2] = [role |-> "user", content |-> tn.userMessage]
              /\ /\ Len(h) = 3
                 /\ tn.body.message = "hi"
                 /\ \A kind \in {"image", "file", "external"} :
                       Context(tn.results, kind) = ""
                 => /\ Len(r) = 5
                    /\ r[5].content = "hi"

\* a turn on a log of 3 messages with the message "hi" alone has built its request
C21_Witness ==
    \E t \in Turns :
        /\ turns[t].pc = "generate"
        /\ Len(turns[t].history) = 3
        /\ turns[t].body.message = "hi"
        /\ turns[t].body.image = ""
        /\ turns[t].body.fileData = ""
        /\ Len(turns[t].request) = 5

-----------------------------------------------------------------------------
(* The parts of a user turn, lines 487-515 *)

ImageSection(imageContext) ==
    IF imageContext # "" THEN "[IMAGE ANALYSIS]\n" \o imageContext \o "\n\n" ELSE ""

FileSection(fileContext) ==
    IF fileContext # "" THEN "[FILE CONTENT]\n" \o fileContext \o "\n\n" ELSE ""

QuestionLabel == "[USER'S QUESTION]\n"

AnalyzeInstruction(imageContext) ==
    "Please analyze the " \o (IF imageContext # "" THEN "image" ELSE "file")
        \o " I've uploaded and provide detailed insights."

Greeting == "Hello! How can I help you today?"

(* C22 - the user turn.  When a turn calls the model with an empty image   *)
(* context and an empty file context, its user turn is the raw message;    *)
(* otherwise it is the image analysis section (if any), the file content   *)
(* section (if any) and then the user's-question label followed by the raw *)
(* message or, when the raw message is empty, by the analyze instruction.  *)
C22_UserTurn ==
    \A t \in Turns :
        LET tn == turns[t]
            image == Context(tn.results, "image")
            file == Context(tn.results, "file")
        IN tn.pc = "generate" =>
              tn.userMessage =
                 IF image = "" /\ file = ""
                 THEN tn.body.message
                 ELSE ImageSection(image) \o FileSection(file) \o QuestionLabel
                        \o (IF tn.body.message # "" THEN tn.body.message
                            ELSE AnalyzeInstruction(image))

(* C22 as the code has it: with both contexts empty the user turn is the   *)
(* raw message, or the greeting when the raw message is empty too;         *)
(* otherwise it is the image analysis section, the file content section    *)
(* and then either the user's-question label followed by the raw message   *)
(* or, when the raw message is empty, the analyze instruction on its own,  *)
(* without a label.                                                        *)
C22_UserTurnOrGreeting ==
    \A t \in Turns :
        LET tn == turns[t]
            image == Context(tn.results, "image")
            file == Context(tn.results, "file")
        IN tn.pc = "generate" =>
              tn.userMessage =
                 IF image = "" /\ file = ""
                 THEN IF tn.body.message # "" THEN tn.body.message ELSE Greeting
                 ELSE ImageSection(image) \o FileSection(file)
                        \o (IF tn.body.message # ""
                            THEN QuestionLabel \o tn.body.message
                            ELSE AnalyzeInstruction(image))

\* a turn with a message, an image context and a file context has built its user turn
C22_Witness ==
    \E t \in Turns :
        /\ turns[t].pc = "generate"
        /\ turns[t].body.message # ""
        /\ Context(turns[t].results, "image") # ""
        /\ Context(turns[t].results, "file") # ""

(* C23 - the user turn is never empty.  Once a turn whose message, image   *)
(* or file data is non-empty has built its generation request, the user    *)
(* turn is not the empty string: neither in the last entry of the request, *)
(* nor in a user message the turn appended, nor in any user message of the *)
(* log of its session, in memory or durable.                               *)
C23_UserTurnNeverEmpty ==
    \A t \in Turns :
        LET tn == turns[t]
            k == tn.body.sessionId
        IN /\ tn.pc \notin {"idle", "enrich"}
           /\ tn.body.message # "" \/ tn.body.image # "" \/ tn.body.fileData # ""
           => /\ tn.userMessage # ""
              /\ tn.request # <<>>
              /\ tn.request[Len(tn.request)] =
                    [role |-> "user", content |-> tn.userMessage]
              /\ \A i \in 1..Len(tn.pushed) :
                    tn.pushed[i].role = "user" => tn.pushed[i].content # ""
              /\ \A i \in 1..Len(messages[k]) :
                    messages[k][i].role = "user" => messages[k][i].content # ""
              /\ \A i \in 1..Len(RestartedMessages(k)) :
                    RestartedMessages(k)[i].role = "user" =>
                        RestartedMessages(k)[i].content # ""

\* a turn with file data, no file name and no message succeeded: its user message is
\* in the durable log
C23_Witness ==
    \E t \in Turns :
        /\ turns[t].pc = "done" /\ turns[t].response.status = 200
        /\ turns[t].body.message = "" /\ turns[t].body.image = ""
        /\ turns[t].body.fileData # "" /\ turns[t].body.fileName = ""
        /\ \E i \in 1..Len(RestartedMessages(turns[t].body.sessionId)) :
              RestartedMessages(turns[t].body.sessionId)[i] \in
                  [role : {"user"}, content : {turns[t].userMessage},
                   timestamp : Clock]

(* C24 - the preview.  After a turn answered with the reply for a session  *)
(* that had a summary, the directory lists the same summaries at the same  *)
(* positions; the summary of that session has the raw message as its       *)
(* preview, or "Sent an attachment" when the message was empty, and keeps  *)
(* its id, name and creation time; every other summary is unchanged; the   *)
(* durable list is that list.                                              *)
C24_PreviewUpdated ==
    \A t \in Turns :
        LET tn == turns[t]
            k == tn.body.sessionId
        IN /\ tn.pc = "done" /\ tn.response.status = 200
           /\ k \in Ids(PriorSessions)
           => /\ Len(sessions) = Len(PriorSessions)
              /\ \A j \in 1..Len(PriorSessions) :
                    IF PriorSessions[j].id = k
                    THEN /\ sessions[j].lastMessage =
                               (IF tn.body.message # "" THEN tn.body.message
                                ELSE "Sent an attachment")
                         /\ sessions[j].id = k
                         /\ sessions[j].name = PriorSessions[j].name
                         /\ sessions[j].createdAt = PriorSessions[j].createdAt
                         /\ sessions[j].updatedAt \in Clock
                    ELSE sessions[j] = PriorSessions[j]
              /\ Stored = sessions

\* a turn with an attachment and no message succeeded for the session listed second
C24_Witness ==
    \E t \in Turns :
        /\ turns[t].pc = "done" /\ turns[t].response.status = 200
        /\ turns[t].body.sessionId = "s1"
        /\ turns[t].body.message = ""
        /\ sessions[2].id = "s1"
        /\ sessions[2].lastMessage = "Sent an attachment"

(* C25 - a session without a summary.  A turn for a session the directory  *)
(* does not list, whose generation and two appends succeeded, ends with    *)
(* status 200, the reply and the same sessionId, after the directory       *)
(* answered not found; its two messages are the last two of the log; the   *)
(* directory lists what it listed before, in memory and durably, and has   *)
(* no summary for that session.                                            *)
C25_MissingSummary ==
    \A t \in Turns :
        LET tn == turns[t]
            k == tn.body.sessionId
            m == messages[k]
        IN /\ tn.pc = "done"
           /\ k \notin Ids(PriorSessions)
           /\ Made(t, "update") # <<>>
           => /\ tn.preview = "missing"
              /\ tn.response.status = 200
              /\ tn.response.response = tn.aiResponse
              /\ tn.response.response # ""
              /\ tn.response.sessionId = k
              /\ tn.response.error = ""
              /\ Len(tn.pushed) = 2
              /\ Len(m) >= 2
              /\ m[Len(m) - 1].role = "user"
              /\ m[Len(m) - 1].content = tn.userMessage
              /\ m[Len(m)].role = "assistant"
              /\ m[Len(m)].content = tn.aiResponse
              /\ RestartedMessages(k) = m
              /\ sessions = PriorSessions
              /\ Stored = PriorSessions
              /\ k \notin Ids(sessions)

\* a turn for "s2", which has no summary, was answered with the reply
C25_Witness ==
    \E t \in Turns :
        /\ turns[t].pc = "done"
        /\ turns[t].body.sessionId = "s2"
        /\ turns[t].preview = "missing"
        /\ turns[t].response.status = 200
        /\ Len(messages["s2"]) >= 2

(* C26 - durable equals in-memory.  Right after an append, a mergeContext  *)
(* or a clear answered success, the durable record of that log holds the   *)
(* messages and the user context the object has in memory, so that a       *)
(* freshly constructed object answers getAll as this one does; right after *)
(* a create, an update or a remove answered success, the durable list of   *)
(* summaries is the list in memory.                                        *)
C26_DurableEqualsMemory ==
    /\ \A k \in Keys :
          /\ last.key = k /\ last.ok
          /\ last.op \in {"append", "mergeContext", "clear"}
          => /\ RestartedMessages(k) = messages[k]
             /\ RestartedContext(k) = userContext[k]
             /\ RestartedMessages(k) = GetAllMessages(k)
             /\ RestartedContext(k) = GetAllContext(k)
    /\ last.ok /\ last.op \in {"create", "update", "remove"} =>
          /\ Stored = sessions
          /\ Stored = ListSessions

(* C27 - a failed attachment task.  When the image task or the file task   *)
(* of a turn has settled after its vision call threw or its payload could  *)
(* not be decoded, the bundle field of that task is empty, and the user    *)
(* turn built afterwards has no section of that kind.                      *)
C27_FailedTaskEmpty ==
    \A t \in Turns :
        LET tn == turns[t]
        IN /\ /\ Settled(tn, "image")
              /\ tn.outcomes["image"] \in {"throws", "undecodable"}
              => /\ Context(tn.results, "image") = ""
                 /\ tn.pc = "generate" => ~Includes(tn.userMessage, "[IMAGE ANALYSIS]")
           /\ /\ Settled(tn, "file")
              /\ tn.outcomes["file"] \in {"throws", "undecodable"}
              => /\ Context(tn.results, "file") = ""
                 /\ tn.pc = "generate" => ~Includes(tn.userMessage, "[FILE CONTENT]")

(* C28 - the order of a turn.  The calls a valid turn has made are always  *)
(* a prefix of: its enrichment tasks, the history read, the generation     *)
(* call, the append of the user turn, the append of the reply, the preview *)
(* update.  Once the history read is made every scheduled task has         *)
(* settled with a result and none is pending; once the generation call is  *)
(* made the history has been read and is in the request; once an append is *)
(* made the generation has returned a reply.                               *)
C28_StepOrder ==
    \A t \in Turns :
        LET tn == turns[t]
            tasks == (IF tn.body.image # "" THEN <<"analyzeImage">> ELSE <<>>)
                     \o (IF tn.body.fileData # "" /\ tn.body.fileName # ""
                         THEN <<"extractTextFromFile">> ELSE <<>>)
                     \o <<"getExternalInfo">>
            order == tasks \o <<"getAll", "generate", "append", "append", "update">>
        IN /\ tn.pc # "idle"
           /\ tn.body.message # "" \/ tn.body.image # "" \/ tn.body.fileData # ""
           => /\ Len(tn.calls) <= Len(order)
              /\ tn.calls = SubSeq(order, 1, Len(tn.calls))
              /\ Len(tn.calls) >= Len(tasks)
              /\ Made(t, "getAll") # <<>> =>
                    /\ tn.pending = {}
                    /\ Len(tasks) = Cardinality(DOMAIN tn.outcomes)
                    /\ DOMAIN tn.results = DOMAIN tn.outcomes
              /\ Made(t, "getAll") = <<>> => tn.history = <<>> /\ tn.request = <<>>
              /\ Made(t, "generate") # <<>> =>
                    /\ Made(t, "getAll") # <<>>
                    /\ Len(tn.request) = Min(10, Len(tn.history)) + 2
              /\ Made(t, "generate") = <<>> => tn.generated = ""
              /\ Made(t, "append") # <<>> =>
                    /\ tn.generated = "text"
                    /\ tn.aiResponse # ""
              /\ Made(t, "append") = <<>> =>
                    /\ tn.pushed = <<>>
                    /\ \A i \in 1..Len(suspended[tn.body.sessionId]) :
                          suspended[tn.body.sessionId][i].caller # t

\* a turn with an image, a file and a message went through all its steps
C28_Witness ==
    \E t \in Turns :
        /\ turns[t].pc = "done" /\ turns[t].response.status = 200
        /\ turns[t].calls = <<"analyzeImage", "extractTextFromFile", "getExternalInfo",
                              "getAll", "generate", "append", "append", "update">>

(* C29 - the directory after the log.  When a turn has sent its preview    *)
(* update, both its appends have answered success: the user turn and then  *)
(* the reply are the last two messages of the log, in memory and durably.  *)
(* When a summary of the directory, in memory or durable, differs from     *)
(* what it was before the turns, it is the summary of the session of a     *)
(* turn whose reply is the last message of the durable log.                *)
C29_PreviewAfterAppends ==
    /\ \A t \in Turns :
          LET tn == turns[t]
              k == tn.body.sessionId
              m == RestartedMessages(k)
          IN \/ tn.preview # "none"
             \/ Made(t, "update") # <<>>
             \/ \E i \in 1..Len(sessSuspended) : sessSuspended[i].caller = t
             => /\ Len(tn.pushed) = 2
                /\ tn.pushed[1].role = "user" /\ tn.pushed[2].role = "assistant"
                /\ Len(m) >= 2
                /\ m[Len(m) - 1].role = "user"
                /\ m[Len(m) - 1].content = tn.userMessage
                /\ m[Len(m)].role = "assistant"
                /\ m[Len(m)].content = tn.aiResponse
                /\ messages[k] = m
    /\ \A list \in {sessions, Stored} :
          \A j \in 1..Len(list) :
              list[j] # PriorSessions[j] =>
                  \E t \in Turns :
                      LET m == RestartedMessages(turns[t].body.sessionId)
                      IN /\ turns[t].body.sessionId = list[j].id
                         /\ Len(turns[t].pushed) = 2
                         /\ Len(m) >= 2
                         /\ m[Len(m)].role = "assistant"
                         /\ m[Len(m)].content = turns[t].aiResponse

\* the directory shows the preview of a turn whose reply is in the log
C29_Witness ==
    \E t \in Turns :
        /\ turns[t].preview = "updated"
        /\ sessions[2].lastMessage = "hi"
        /\ turns[t].body.message = "hi"
        /\ Len(turns[t].pushed) = 2

-----------------------------------------------------------------------------
(* Two session logs: direct requests on either key, and one turn *)

\* direct requests on the two logs
KeyRequests == 1

KeyBodies ==
    [message : {"hi"}, sessionId : Keys, image : {""}, fileName : {""},
     fileData : {""}]

InitKeys ==
    /\ sessions = <<>>
    /\ sessStorage = Put(EmptyMap, "sessions", PriorSessions)
    /\ sessSuspended = <<>>
    /\ turns = [t \in Turns |-> IdleTurn]
    /\ messages = [k \in Keys |-> <<>>]
    /\ userContext = [k \in Keys |-> EmptyMap]
    /\ storage = [k \in Keys |-> Put(EmptyMap, "messages", Prior(2))]
    /\ nextId = 3
    /\ suspended = [k \in Keys |-> <<>>]
    /\ now = 0
    /\ nReq = 0
    /\ hist = [k \in Keys |-> <<>>]
    /\ arrivals = [k \in Keys |-> <<>>]
    /\ acked = [k \in Keys |-> {}]
    /\ failed = [k \in Keys |-> {}]
    /\ last = [op |-> "init", key |-> "", ok |-> TRUE]

KeysStart(t) ==
    /\ \E body \in KeyBodies : HandleChat(t, body)
    /\ last' = [op |-> "handleChat", key |-> t, ok |-> TRUE]

\* direct requests on the log of key k
KeysGet(k) ==
    /\ GetMessages(k)
    /\ last' = [op |-> "getAll", key |-> k, ok |-> TRUE]
    /\ UNCHANGED <<now, nextId, nReq>>
    /\ UNCHANGED <<dirVars, turns>>

KeysAppendArrive(k) ==
    /\ nReq < KeyRequests
    /\ PostMessagesArrive(k, "user", Content(nextId), "ext")
    /\ nextId' = nextId + 1
    /\ nReq' = nReq + 1
    /\ last' = [op |-> "arrive", key |-> k, ok |-> TRUE]
    /\ UNCHANGED <<now>>
    /\ UNCHANGED <<dirVars, turns>>

KeysClear(k) ==
    /\ nReq < KeyRequests
    /\ \E ok \in BOOLEAN :
          /\ DeleteMessages(k, ok)
          /\ last' = [op |-> "clear", key |-> k, ok |-> ok]
    /\ nReq' = nReq + 1
    /\ UNCHANGED <<now, nextId>>
    /\ UNCHANGED <<dirVars, turns>>

KeysMergeArrive(k) ==
    /\ nReq < KeyRequests
    /\ PostContextArrive(k, [a |-> 1], "ext")
    /\ nReq' = nReq + 1
    /\ last' = [op |-> "arrive", key |-> k, ok |-> TRUE]
    /\ UNCHANGED <<now, nextId>>
    /\ UNCHANGED <<dirVars, turns>>

NextKeys ==
    \/ \E k \in Keys :
          \/ KeysGet(k)
          \/ KeysAppendArrive(k)
          \/ LogAppendResume(k)
          \/ KeysClear(k)
          \/ KeysMergeArrive(k)
          \/ LogMergeResume(k)
    \/ \E t \in TurnIds :
          \/ KeysStart(t)
          \/ TurnTaskDone(t)
          \/ TurnReadHistory(t)
          \/ TurnGenerate(t)
          \/ TurnPostResume(t)
          \/ TurnPostAssistant(t)
          \/ TurnPutSession(t)
          \/ TurnPutResume(t)

SpecKeys == InitKeys /\ [][NextKeys]_vars

\* the key of the log the last step worked on: that of the request, or the sessionId
\* of the turn
OperatedKey ==
    IF last.key \in Turns THEN turns[last.key].body.sessionId ELSE last.key

(* C30 - keys are isolated.  Every step of a request (getAll, append,      *)
(* mergeContext, clear) or of a turn on one key leaves, for every          *)
(* other key, the messages and the user context in memory, the durable     *)
(* record and the requests in progress as they were.                       *)
C30_KeysIsolated ==
    [][\A b \in Keys :
          OperatedKey' # b =>
              /\ messages'[b] = messages[b]
              /\ userContext'[b] = userContext[b]
              /\ storage'[b] = storage[b]
              /\ suspended'[b] = suspended[b]]_vars

\* a turn on "s2" has succeeded and a direct append on "s1" too: the logs differ
C30_Witness ==
    \E t \in Turns :
        /\ turns[t].pc = "done" /\ turns[t].response.status = 200
        /\ turns[t].body.sessionId = "s2"
        /\ Len(messages["s2"]) = 4
        /\ Len(messages["s1"]) = 3
        /\ RestartedMessages("s1") = messages["s1"]

-----------------------------------------------------------------------------
(* One turn whose calls all answer in the end *)

LiveBodies ==
    [message : {"", "weather in Paris?"}, sessionId : {"s1"}, image : Images,
     fileName : {"", "photo.PNG"}, fileData : FileDatas]

LiveStart(t) ==
    /\ \E body \in LiveBodies : HandleChat(t, body)
    /\ last' = [op |-> "handleChat", key |-> t, ok |-> TRUE]

NextLive ==
    \E t \in TurnIds :
        \/ LiveStart(t)
        \/ TurnTaskDone(t)
        \/ TurnReadHistory(t)
        \/ TurnGenerate(t)
        \/ TurnPostResume(t)
        \/ TurnPostAssistant(t)
        \/ TurnPutSession(t)
        \/ TurnPutResume(t)

\* every call a turn awaits returns or fails in the end; a turn need not start
FairLive ==
    \A t \in TurnIds :
        /\ WF_vars(TurnTaskDone(t))
        /\ WF_vars(TurnReadHistory(t))
        /\ WF_vars(TurnGenerate(t))
        /\ WF_vars(TurnPostResume(t))
        /\ WF_vars(TurnPostAssistant(t))
        /\ WF_vars(TurnPutSession(t))
        /\ WF_vars(TurnPutResume(t))

SpecLive == InitEnrich /\ [][NextLive]_vars /\ FairLive

(* C31 - a turn completes.  When every awaited call answers in the end, a  *)
(* turn that has started eventually ends with status 200 and the reply or  *)
(* with status 500 and an error.  A turn never repeats a call: it issues   *)
(* at most one external lookup per scheduled task, and makes at most one   *)
(* history read, one generation call, two appends and one preview update.  *)
C31_TurnCompletes ==
    /\ [](\A t \in Turns :
             LET tn == turns[t]
                 tasks == (IF tn.body.image # "" THEN 1 ELSE 0)
                          + (IF tn.body.fileData # "" /\ tn.body.fileName # ""
                             THEN 1 ELSE 0)
                          + 1
             IN /\ Len(tn.lookups) <= tasks
                /\ Len(tn.calls) <= tasks + 5
                /\ Len(Made(t, "getAll")) <= 1
                /\ Len(Made(t, "generate")) <= 1
                /\ Len(Made(t, "append")) <= 2
                /\ Len(Made(t, "update")) <= 1)
    /\ \A t \in Turns :
          (turns[t].pc # "idle") ~>
              (/\ turns[t].pc = "done"
               /\ \/ /\ turns[t].response.status = 200
                     /\ turns[t].response.response # ""
                  \/ /\ turns[t].response.status = 500
                     /\ turns[t].response.error # "")

\* a turn with an image, an image file and a weather question has ended with the reply
C31_Witness ==
    \E t \in Turns :
        /\ turns[t].pc = "done" /\ turns[t].response.status = 200
        /\ turns[t].lookups = <<"vision", "vision", "weather">>
        /\ Len(turns[t].calls) = 8

(* C32 - the tasks of a turn.  A turn schedules at most three tasks, no    *)
(* kind twice, and issues at most one weather or search lookup.  Each      *)
(* settled task has its result in the field of its own kind, and that      *)
(* result depends on the outcome of that task alone: whatever the order    *)
(* in which the tasks settled, the bundle the prompt is built from holds   *)
(* for each kind the data of that kind's outcome.                          *)
C32_BundleByKind ==
    \A t \in Turns :
        LET tn == turns[t]
            kinds == tn.pending \cup DOMAIN tn.outcomes
        IN tn.pc # "idle" =>
              /\ kinds \subseteq {"image", "file", "external"}
              /\ Len(SelectSeq(tn.calls, LAMBDA c : c \in
                       {"analyzeImage", "extractTextFromFile", "getExternalInfo"})) <= 3
              /\ \A c \in {"analyzeImage", "extractTextFromFile", "getExternalInfo"} :
                    Len(Made(t, c)) <= 1
              /\ Len(ExternalLookups(tn)) <= 1
              /\ DOMAIN tn.results = DOMAIN tn.outcomes
              /\ \A kind \in DOMAIN tn.results :
                    \E d \in Clock :
                       tn.results[kind] =
                          CASE kind = "image" -> AnalyzeImage(tn.outcomes[kind])
                            [] kind = "file" ->
                                 ExtractTextFromFile(tn.body.fileName, tn.outcomes[kind])
                            [] OTHER ->
                                 ExternalData(tn.intent, tn.body.message,
                                              tn.outcomes[kind], d)

\* three tasks have settled, the external one first or the image one last
C32_Witness ==
    \E t \in Turns :
        /\ turns[t].pc = "generate"
        /\ DOMAIN turns[t].outcomes = {"image", "file", "external"}
        /\ turns[t].results["image"] # turns[t].results["file"]
        /\ turns[t].results["external"] # ""

-----------------------------------------------------------------------------
(* Two turns on one session, and a clear *)

PairBody(t) ==
    [message |-> IF t = "t1" THEN "hi" ELSE "yo", sessionId |-> "s1", image |-> "", fileName |-> "",
     fileData |-> ""]

PairStart(t) ==
    /\ HandleChat(t, PairBody(t))
    /\ last' = [op |-> "handleChat", key |-> t, ok |-> TRUE]

NextPair ==
    \/ \E t \in Turns :
          \/ PairStart(t)
          \/ TurnTaskDone(t)
          \/ TurnReadHistory(t)
          \/ TurnGenerate(t)
          \/ TurnPostResume(t)
          \/ TurnPostAssistant(t)
          \/ TurnPutSession(t)
          \/ TurnPutResume(t)
    \/ KeysClear("s1")

SpecPair == InitKeys /\ [][NextPair]_vars

(* C33 - pairs stay together.  In the log of a session, a user message of  *)
(* a turn that is not the last message is followed directly by the reply   *)
(* of that turn.                                                           *)
C33_PairsAdjacent ==
    \A t \in Turns :
        LET tn == turns[t]
            m == messages["s1"]
        IN tn.pc # "idle" =>
              \A i \in 1..(Len(m) - 1) :
                  m[i].role = "user" /\ m[i].content = tn.userMessage =>
                      /\ m[i + 1].role = "assistant"
                      /\ m[i + 1].content = tn.aiResponse

(* C34 - a failed turn leaves no trace.  When a turn has ended with an     *)
(* error, the log of its session, as getAll answers it and as it is        *)
(* stored, is the log from before the turn.                                *)
C34_ErrorLeavesLog ==
    \A t \in Turns :
        LET tn == turns[t]
            k == tn.body.sessionId
        IN tn.pc = "done" /\ tn.response.status = 500 /\ k \in Keys =>
              /\ RestartedMessages(k) = Prior(nextId - 1)
              /\ GetAllMessages(k) = Prior(nextId - 1)

(* C35 - the history a reply was made from.  When a turn has been answered *)
(* with the reply and its user message is in the log, the history part of  *)
(* the request it sent to the model is the last min(10, n) of the n        *)
(* messages stored before that user message, as role/content pairs.        *)
C35_HistoryBeforeUserMessage ==
    \A t \in Turns :
        LET tn == turns[t]
            m == messages["s1"]
        IN tn.pc = "done" /\ tn.response.status = 200 =>
              \A i \in 1..Len(m) :
                  m[i].role = "user" /\ m[i].content = tn.userMessage =>
                      LET n == Min(10, i - 1)
                      IN /\ Len(tn.request) = n + 2
                         /\ \A j \in 1..n :
                               tn.request[1 + j] =
                                  [role |-> m[i - 1 - n + j].role,
                                   content |-> m[i - 1 - n + j].content]

-----------------------------------------------------------------------------
(* The directory forgets a session whose log is stored *)

StoredContext == [a |-> 1, lastActivity |-> 0]

InitForget ==
    /\ sessions = <<>>
    /\ sessStorage = Put(EmptyMap, "sessions", PriorSessions)
    /\ sessSuspended = <<>>
    /\ turns = [t \in Turns |-> IdleTurn]
    /\ messages = [k \in Keys |-> <<>>]
    /\ userContext = [k \in Keys |-> EmptyMap]
    /\ storage = [k \in Keys |->
          Put(Put(EmptyMap, "messages", Prior(2)), "userContext", StoredContext)]
    /\ nextId = 3
    /\ suspended = [k \in Keys |-> <<>>]
    /\ now = 0
    /\ nReq = 0
    /\ hist = [k \in Keys |-> <<>>]
    /\ arrivals = [k \in Keys |-> <<>>]
    /\ acked = [k \in Keys |-> {}]
    /\ failed = [k \in Keys |-> {}]
    /\ last = [op |-> "init", key |-> "", ok |-> TRUE]

NextForget ==
    \/ DirList
    \/ DirCreateArrive
    \/ DirCreateResume
    \/ DirRemoveArrive
    \/ DirRemoveResume
    \/ \E k \in Keys : KeysGet(k)

SpecForget == InitForget /\ [][NextForget]_vars

(* C36 - remove keeps the log.  Whatever summaries the directory removes   *)
(* and creates, the log of every id stays stored with its messages and its *)
(* user context, and getAll answers that history: also for an id whose     *)
(* summary was removed and then created again.                             *)
C36_RemoveKeepsLog ==
    \A k \in Keys :
        /\ RestartedMessages(k) = Prior(2)
        /\ RestartedContext(k) = StoredContext
        /\ GetAllMessages(k) = Prior(2)
        /\ GetAllContext(k) = StoredContext
        /\ last.op = "getAll" /\ last.key = k =>
              messages[k] = Prior(2) /\ userContext[k] = StoredContext

\* the summary of "s1" was removed and created again, and getAll answered the old history
C36_Witness ==
    /\ Len(sessions) = 2
    /\ sessions[1].id = "s1"
    /\ sessions[2].id = "s0"
    /\ last = [op |-> "getAll", key |-> "s1", ok |-> TRUE]
    /\ messages["s1"] = Prior(2)

(* C37 - duplicates.  A create whose id is already listed puts one new     *)
(* summary with that id at index 0 and leaves every listed summary, the    *)
(* older one with that id included, unchanged behind it; an update of an   *)
(* id changes no summary but the frontmost one with that id; after a       *)
(* remove of an id no summary with that id is listed, and the others are   *)
(* listed in their order.                                                  *)
C37_DuplicateIds ==
    [][/\ \A i \in 1..Len(sessSuspended), rid \in FreshIds, t1 \in Clock, t2 \in Clock,
             ok \in BOOLEAN :
             /\ PostSessionsResume(i, rid, t1, t2, ok)
             /\ Has(sessSuspended[i].body, "id")
             /\ sessSuspended[i].body.id \in Ids(sessions)
             => /\ Len(sessions') = Len(sessions) + 1
                /\ sessions'[1].id = sessSuspended[i].body.id
                /\ \A j \in 1..Len(sessions) : sessions'[j + 1] = sessions[j]
       /\ \A i \in 1..Len(sessSuspended), t \in Clock, ok \in BOOLEAN :
             PutSessionsResume(i, t, ok) =>
                /\ Len(sessions') = Len(sessions)
                /\ \A j \in 1..Len(sessions) :
                      sessions'[j] # sessions[j] =>
                         /\ sessions[j].id = sessSuspended[i].body.id
                         /\ \A j2 \in 1..(j - 1) :
                               sessions[j2].id # sessSuspended[i].body.id
       /\ \A i \in 1..Len(sessSuspended), ok \in BOOLEAN :
             DeleteSessionsResume(i, ok) =>
                /\ sessSuspended[i].body.id \notin Ids(sessions')
                /\ sessions' = SelectSeq(sessions,
                                  LAMBDA s : s.id # sessSuspended[i].body.id)
      ]_vars

\* "s1" is listed twice and an update has renamed the front one only
C37_Witness ==
    /\ last.op = "update" /\ last.ok
    /\ Len(sessions) = 3
    /\ sessions[1].id = "s1" /\ sessions[1].name = "X"
    /\ sessions[3].id = "s1" /\ sessions[3].name = "New Chat"

(* C38 - empty fields of an update.  An update of a listed id whose body   *)
(* has the name "" leaves the name of the frontmost summary with that id   *)
(* as it was, sets its updatedAt to the time of the update and, when the   *)
(* persist did not throw, answers success; an update whose body has the    *)
(* preview "" makes the preview of that summary empty.                     *)
C38_EmptyFields ==
    [][\A i \in 1..Len(sessSuspended), t \in Clock, ok \in BOOLEAN :
          /\ PutSessionsResume(i, t, ok)
          /\ sessSuspended[i].body.id \in Ids(sessions)
          => LET body == sessSuspended[i].body
                 idx == CHOOSE j \in 1..Len(sessions) :
                           /\ sessions[j].id = body.id
                           /\ \A j2 \in 1..(j - 1) : sessions[j2].id # body.id
             IN /\ Has(body, "name") /\ body.name = "" =>
                      /\ sessions'[idx].name = sessions[idx].name
                      /\ sessions'[idx].updatedAt = t
                      /\ ok => /\ PutSessionsStatus(i, ok) = 200
                               /\ Stored' = sessions'
                /\ Has(body, "lastMessage") /\ body.lastMessage = "" =>
                      sessions'[idx].lastMessage = ""
      ]_vars

\* an update of "s1" with an empty name and an empty preview succeeded at time 1: the
\* name is kept
C38_Witness ==
    /\ last = [op |-> "update", key |-> "s1", ok |-> TRUE]
    /\ Len(sessions) = 2
    /\ sessions[2] = Session("s1", "New Chat", "", 0, 1)
    /\ now = 1

(* C39 - an image sent as a file.  A turn with a file whose name has an    *)
(* image extension and with no image runs the file task only, which calls  *)
(* the vision model when the payload can be decoded; its result is the     *)
(* file context and the image context stays empty, so the user turn is a   *)
(* file content section followed by the labeled message or, when the       *)
(* message is empty, by the instruction to analyze the file.               *)
C39_ImageFileIsFile ==
    \A t \in Turns :
        LET tn == turns[t]
            file == Context(tn.results, "file")
        IN /\ tn.pc = "generate"
           /\ tn.body.image = ""
           /\ tn.body.fileData # ""
           /\ Extension(tn.body.fileName) \in {"jpg", "jpeg", "png", "gif", "webp", "bmp"}
           => /\ Made(t, "extractTextFromFile") # <<>>
              /\ Made(t, "analyzeImage") = <<>>
              /\ tn.lookups # <<>> /\ tn.lookups[1] = "vision"
              /\ Context(tn.results, "image") = ""
              /\ file # ""
              /\ tn.userMessage =
                    "[FILE CONTENT]\n" \o file \o "\n\n"
                       \o (IF tn.body.message # ""
                           THEN "[USER'S QUESTION]\n" \o tn.body.message
                           ELSE "Please analyze the file I've uploaded and provide detailed insights.")

\* a turn with photo.PNG as a file, no image and no message has built its user turn
C39_Witness ==
    \E t \in Turns :
        /\ turns[t].pc = "generate"
        /\ turns[t].body.image = "" /\ turns[t].body.message = ""
        /\ turns[t].body.fileName = "photo.PNG" /\ turns[t].body.fileData # ""
        /\ turns[t].outcomes["file"] = "text"

(* C40 - the frame of the log operations.  What getAll and a read of the   *)
(* context would answer, and what is stored, are compared before and after *)
(* each step of a request.  A step of append, clear or getAll leaves the   *)
(* user context as it was; a step of mergeContext or getAll leaves the     *)
(* message list as it was; getAll leaves the durable record as it was.     *)
(* After any step of a request the list is empty (a clear) or is the list  *)
(* from before without some messages at its front, with at most one new    *)
(* message at its end: no message that stays has changed.                  *)
C40_LogFrame ==
    [][\A k \in Keys :
          last'.key = k =>
             LET v == GetAllMessages(k)
                 w == GetAllMessages(k)'
                 d == Len(v) - Min(Len(v), Len(w))
             IN /\ last'.op \in {"append", "clear", "getAll", "arrive"} =>
                      /\ GetAllContext(k)' = GetAllContext(k)
                      /\ RestartedContext(k)' = RestartedContext(k)
                /\ last'.op \in {"mergeContext", "getAll", "arrive"} =>
                      /\ w = v
                      /\ RestartedMessages(k)' = RestartedMessages(k)
                /\ last'.op = "getAll" => storage'[k] = storage[k]
                /\ last'.op \in {"append", "clear", "getAll", "arrive", "mergeContext"} =>
                      \/ last'.op = "clear" /\ w = <<>>
                      \/ \E a \in {0, 1}, e \in {d, d + 1} :
                            /\ e <= Len(v)
                            /\ Len(w) = Len(v) - e + a
                            /\ \A j \in 1..(Len(v) - e) : w[j] = v[e + j]
                            /\ e > 0 => Len(v) + a > WindowSize
      ]_vars

=============================================================================
